---- MODULE Spec2Model ----
(***************************************************************************)
(* A model of the oscillator-network eigenmode engine and of the LDOS      *)
(* anomaly-detection pipeline of SpectralPhysics-Lab                       *)
(* (src/src/spectral_physics).                                             *)
(*                                                                         *)
(* Numbers.  The program computes in IEEE doubles; the model computes in   *)
(* exact arithmetic.  Stiffnesses, masses, powers and LDOS values are      *)
(* integers (multiples of an arbitrary unit), quotients are kept as        *)
(* reduced fractions [num, den], and a square root of a value that is not  *)
(* a perfect square is kept by its square.  Rounding of doubles is not     *)
(* modelled.                                                               *)
(*                                                                         *)
(* Exceptions.  A Python call either returns a value or raises; the model  *)
(* writes the outcome as Ok(v) or Raise(exc).                              *)
(*                                                                         *)
(* The dense eigen-solver scipy.linalg.eigh is a library outside the       *)
(* repository: the model draws its output from the set of outputs its      *)
(* contract allows (eigenvalues in ascending order, one column per         *)
(* eigenvalue).                                                            *)
(***************************************************************************)
EXTENDS Integers, Sequences, FiniteSets, TLC

VARIABLES
    grid,        \* the OscillatorGrid2D object (its dataclass fields)
    grid_K,      \* the outcome of grid.stiffness_matrix(), None before the call
    chain,       \* the OscillatorChain1D object, None while none is constructed
    chain_exc,   \* the exception the constructor raised, None if none
    chain_K,     \* the outcome of chain.stiffness_matrix(), None before the call
    eigh_out,    \* what scipy.linalg.eigh returned last, None before any call
    modes_out,   \* the outcome of eigenmodes() of the chain or grid, None before
    eig_args,    \* n_modes of that call and the subset_by_index it gave the solver
    ldos_in,     \* the arguments (modes, omegas, freq_window) of ldos_from_modes
    ldos_out,    \* what ldos_from_modes returned for them, None before the call
    sig_ref,     \* MaterialSignature.reference of the signature under test
    sig_other,   \* the observed spectrum the signature is compared with
    sig_calls,   \* the distance_l2 calls made on the signature, with results
    hp_signatures, \* HealthProfile.signatures: (name, reference) in dict order
    hp_out,      \* the last call on the profile or on one of its signatures
    ndt_grid,    \* the grid an NDT profile is built of
    ndt_args,    \* the n_modes and freq_window of its LDOS maps
    ndt_ldos,    \* the LDOS map that is scored (of ndt_grid, when there is one)
    ndt_build,   \* n_samples and noise_level of the build_ndt_profile call
    ndt_profile, \* the NDTProfile, or the exception of build_ndt_profile
    ndt_scores,  \* epsilon and the result of score_ndt_state
    ndt_mask,    \* threshold and the result of ndt_defect_mask
    mon,         \* the HealthMonitor object: its signature and threshold
    mon_out,     \* the last call on the monitor or on its signature
    avg_in,      \* the list of spectra given to average_spectrum
    avg_out,     \* the outcome of average_spectrum, None before the call
    bhp_in,      \* training_data of build_health_profile: (name, list) items
    bhp_out,     \* the outcome of build_health_profile, None before the call
    bhp_score,   \* a score() call on the profile that was built
    sp_obj,      \* the arrays of the spectrum normalize() is called on
    sp_out,      \* that spectrum before the call, and the call's outcome
    an_config,   \* SpectralAnalyzer.config
    an_out,      \* the last analyze() call: the full spectrum and the result
    pd_in,       \* the spectrum and transparencies of a pressure-difference call
    pd_out,      \* the keyword arguments of that call and its outcome
    io_fs,       \* the .npz archives on disk, by file name
    io_saved,    \* the last save: the object, its kind and the path given
    io_out,      \* the last load: the path given, the kind and the outcome
    rs_made,     \* a profile, an observation and NDT data as they were built
    rs_objs,     \* the same objects as they are now
    rs_first,    \* the first scoring call made on them and its result
    rs_last,     \* the latest scoring call and its result
    rs_count,    \* the number of scoring calls made
    nb_made,     \* a grid as it was built, for a profile with noise
    nb_grid,     \* that grid as it is now
    nb_out,      \* the last build_ndt_profile call: its samples and outcome
    lm_grid,     \* a grid whose LDOS map is asked for
    lm_out,      \* the last ldos_map call: K, M, the solver's answer, the map
    cli_config,  \* the YAML configuration of the train and score commands
    cli_fs,      \* the .npz archives the commands wrote
    cli_train,   \* the last train command: what it returned, what failed
    cli_score,   \* the last score command: what it returned, what failed
    nw_in,       \* the arguments of the symmetric_newton call
    nw_x,        \* its local x
    nw_h,        \* its local h
    nw_i,        \* the number of loop bodies it has started
    nw_hs,       \* the values h has had, the first being float(h0)
    nw_out       \* how the call ended: the return value or the exception

gridVars == <<grid, grid_K>>
chainVars == <<chain, chain_exc, chain_K>>
eigVars == <<eigh_out, modes_out, eig_args>>
ldosVars == <<ldos_in, ldos_out>>
sigVars == <<sig_ref, sig_other, sig_calls>>
hpVars == <<hp_signatures, hp_out>>
ndtVars == <<ndt_grid, ndt_args, ndt_ldos, ndt_build, ndt_profile, ndt_scores, ndt_mask>>
monVars == <<mon, mon_out>>
avgVars == <<avg_in, avg_out>>
bhpVars == <<bhp_in, bhp_out, bhp_score>>
spVars == <<sp_obj, sp_out>>
anVars == <<an_config, an_out>>
diagVars == <<monVars, avgVars, bhpVars, spVars, anVars>>
coreVars == <<gridVars, chainVars, eigVars, ldosVars, sigVars, hpVars, ndtVars>>
pdVars == <<pd_in, pd_out>>
ioVars == <<io_fs, io_saved, io_out>>
rsVars == <<rs_made, rs_objs, rs_first, rs_last, rs_count>>
nbVars == <<nb_made, nb_grid, nb_out>>
lmVars == <<lm_grid, lm_out>>
cliVars == <<cli_config, cli_fs, cli_train, cli_score>>
nwVars == <<nw_in, nw_x, nw_h, nw_i, nw_hs, nw_out>>
extVars == <<pdVars, ioVars, rsVars, nbVars, lmVars, cliVars, nwVars>>
vars == <<gridVars, chainVars, eigVars, ldosVars, sigVars, hpVars, ndtVars, diagVars, extVars>>

\* Python's None, and a value that is present where None is allowed
None == [kind |-> "none"]
Some(v) == [kind |-> "some", val |-> v]

\* The outcome of a call
Ok(v) == [kind |-> "ok", val |-> v]
Raise(e) == [kind |-> "raise", exc |-> e]
IsOk(r) == r.kind = "ok"
IsRaise(r) == r.kind = "raise"

(***************************************************************************)
(* Bounds of the model.                                                    *)
(***************************************************************************)
MaxNx == 3
MaxNy == 3
MaxK == 2
MaxChainN == 3
MaxEigN == 2
MaxOmega == 2
MaxLdosModes == 2
MaxBins == 2
MaxCalls == 2
MaxSamples == 3
MaxSpectra == 2
MaxSignalLen == 4

(***************************************************************************)
(* numpy helpers.                                                          *)
(***************************************************************************)
\* np.zeros((n, n)), rows and columns indexed from 0 as in the source
Zeros(n) == [a \in 0..(n - 1) |-> [b \in 0..(n - 1) |-> 0]]

\* K[a, b] = v
SetAt(K, a, b, v) == [K EXCEPT ![a][b] = v]

\* K[a, b] += v
AddAt(K, a, b, v) == [K EXCEPT ![a][b] = @ + v]

(***************************************************************************)
(* OscillatorGrid2D (medium_2d.py).                                        *)
(***************************************************************************)
\* A (ny, nx) array with the same value in every cell
FullMap(ny, nx, v) == [i \in 0..(ny - 1) |-> [j \in 0..(nx - 1) |-> v]]

\* The maps the model constructs grids with: the uniform map of the default
\* stiffness, and that map with one cell (a local defect) set to another
\* value
DefectMaps(ny, nx, base, vals) ==
    { FullMap(ny, nx, base) }
    \cup { [FullMap(ny, nx, base) EXCEPT ![i][j] = w] :
             w \in vals \ {base}, i \in 0..(ny - 1), j \in 0..(nx - 1) }

StiffVals == 0..MaxK
DefaultStiff == {1, 2}

get_kx(g, i, j) == IF g.kx_map # None THEN g.kx_map.val[i][j] ELSE g.kx

get_ky(g, i, j) == IF g.ky_map # None THEN g.ky_map.val[i][j] ELSE g.ky

\* Stiffness of the link to the left of node (i, j), `k_left_val`
LinkLeft_ownCell(g, i, j) == IF j = 0 THEN g.kx ELSE get_kx(g, i, j)

LinkLeft(g, i, j) == IF j = 0 THEN g.kx ELSE get_kx(g, i, j - 1)

\* The right link reads the map at the wall too
LinkRight_mapAtWall(g, i, j) == get_kx(g, i, j)

\* `k_right_val`
LinkRight(g, i, j) == IF j = g.nx - 1 THEN g.kx ELSE get_kx(g, i, j)

\* `k_up_val`
LinkUp(g, i, j) == IF i = 0 THEN g.ky ELSE get_ky(g, i - 1, j)

\* `k_down_val`
LinkDown(g, i, j) == IF i = g.ny - 1 THEN g.ky ELSE get_ky(g, i, j)

\* The body of the assembly loop for node (i, j): the four links in the
\* order of the source, each an off-diagonal assignment (when the
\* neighbour exists) followed by an addition to the diagonal
NodeLinks(g, K, i, j) ==
    LET k_curr == i * g.nx + j
        K1 == IF j = 0 THEN K
              ELSE SetAt(K, k_curr, i * g.nx + (j - 1), -LinkLeft(g, i, j))
        K2 == AddAt(K1, k_curr, k_curr, LinkLeft(g, i, j))
        K3 == IF j = g.nx - 1 THEN K2
              ELSE SetAt(K2, k_curr, i * g.nx + (j + 1), -LinkRight(g, i, j))
        K4 == AddAt(K3, k_curr, k_curr, LinkRight(g, i, j))
        K5 == IF i = 0 THEN K4
              ELSE SetAt(K4, k_curr, (i - 1) * g.nx + j, -LinkUp(g, i, j))
        K6 == AddAt(K5, k_curr, k_curr, LinkUp(g, i, j))
        K7 == IF i = g.ny - 1 THEN K6
              ELSE SetAt(K6, k_curr, (i + 1) * g.nx + j, -LinkDown(g, i, j))
    IN  AddAt(K7, k_curr, k_curr, LinkDown(g, i, j))

\* for i in range(ny): for j in range(nx): ... ; t counts the iterations
\* done, the next one being (i, j) = (t div nx, t mod nx)
RECURSIVE AssembleFrom(_, _, _)
AssembleFrom(g, K, t) ==
    IF t >= g.nx * g.ny THEN K
    ELSE AssembleFrom(g, NodeLinks(g, K, t \div g.nx, t % g.nx), t + 1)

\* OscillatorGrid2D.stiffness_matrix(): the final assembly (the two earlier
\* loops of the method write a K that is thrown away)
Grid_stiffness_matrix(g) == AssembleFrom(g, Zeros(g.nx * g.ny), 0)

OptionalMaps(ny, nx, base) ==
    {None} \cup { Some(mp) : mp \in DefectMaps(ny, nx, base, StiffVals) }

\* OscillatorGrid2D(nx, ny, kx, ky, m, mass_map, kx_map, ky_map): the
\* dataclass stores its arguments
NewGrid(nx, ny, kx, ky, m, mass_map, kx_map, ky_map) ==
    [nx |-> nx, ny |-> ny, kx |-> kx, ky |-> ky, m |-> m,
     mass_map |-> mass_map, kx_map |-> kx_map, ky_map |-> ky_map]

GridInit ==
    /\ \E nx \in 1..MaxNx, ny \in 1..MaxNy, kx \in DefaultStiff, ky \in DefaultStiff :
          \E kxm \in OptionalMaps(ny, nx, kx), kym \in OptionalMaps(ny, nx, ky) :
             grid = NewGrid(nx, ny, kx, ky, 1, None, kxm, kym)
    /\ grid_K = None

GridStiffnessMatrix ==
    /\ grid_K' = Ok(Grid_stiffness_matrix(grid))
    /\ UNCHANGED grid

\* No grid is in use
GridIdle == grid = None /\ grid_K = None

\* The arguments the model constructs grids with when it looks at the
\* construction itself: dimensions 0..2, a stiffness of -1 or 1, a mass of
\* 0 or 1, and maps of shape (ny, nx), (ny + 1, nx) and (ny, nx - 1)
GridDimArgs == 0..2
GridStiffArgs == {-1, 1}
GridMassArgs == {0, 1}
GridMapArgs(ny, nx) ==
    {None, Some(FullMap(ny, nx, 1)), Some(FullMap(ny + 1, nx, 1)),
     Some(FullMap(ny, nx - 1, 1))}

\* grid = OscillatorGrid2D(nx, ny, kx, ky, m, mass_map, kx_map, ky_map):
\* the dataclass has no __post_init__, the call stores its arguments
GridConstruct ==
    /\ grid = None
    /\ \E nx \in GridDimArgs, ny \in GridDimArgs, kx \in GridStiffArgs,
          ky \in GridStiffArgs, m \in GridMassArgs :
         \E mass_map \in GridMapArgs(ny, nx), kx_map \in GridMapArgs(ny, nx),
            ky_map \in GridMapArgs(ny, nx) :
            grid' = NewGrid(nx, ny, kx, ky, m, mass_map, kx_map, ky_map)
    /\ UNCHANGED grid_K

\* The array a has an entry at [i, j] for every i of rows and j of cols
MapCovers(a, rows, cols) ==
    \A i \in rows : \A j \in cols : i \in DOMAIN a /\ j \in DOMAIN a[i]

\* stiffness_matrix() on a grid whose maps may have any shape: the first
\* loop reads kx_map[i, j] at every node and the last one ky_map[i, j] at
\* every node but those of the last row; an index outside the map raises
\* IndexError
Grid_stiffness_matrix_outcome(g) ==
    IF g.kx_map # None /\ ~MapCovers(g.kx_map.val, 0..(g.ny - 1), 0..(g.nx - 1))
    THEN Raise("IndexError")
    ELSE IF g.ky_map # None /\ ~MapCovers(g.ky_map.val, 0..(g.ny - 2), 0..(g.nx - 1))
    THEN Raise("IndexError")
    ELSE Ok(Grid_stiffness_matrix(g))

\* grid.stiffness_matrix() on the grid that was constructed
GridConstructedStiffnessMatrix ==
    /\ grid # None /\ grid_K = None
    /\ grid_K' = Grid_stiffness_matrix_outcome(grid)
    /\ UNCHANGED grid


(***************************************************************************)
(* OscillatorChain1D (medium_1d.py).                                       *)
(***************************************************************************)
\* len(a) of a 1-D array
ArrLen(a) == Cardinality(DOMAIN a)

\* np.full(n, v)
Full(n, v) == [i \in 0..(n - 1) |-> v]

\* A float, and a 1-D array (indexed from 0), where the source takes either;
\* np.asarray(x).ndim is 0 for the first and 1 for the second.  The float
\* is kept in a one-element function so that both have values of one type
Scalar(v) == [kind |-> "scalar", val |-> Full(1, v)]
Array(a) == [kind |-> "array", val |-> a]
ScalarVal(x) == x.val[0]

\* The elements of np.asarray(x)
Elems(x) == {x.val[i] : i \in DOMAIN x.val}

\* __post_init__ with the mass test `< 0` in place of `<= 0`
Chain_post_init_zeroMassAllowed(n, k, m, gamma) ==
    IF n < 1 THEN Raise("ValueError")
    ELSE IF \E x \in Elems(m) : x < 0 THEN Raise("ValueError")
    ELSE IF \E x \in Elems(k) : x < 0 THEN Raise("ValueError")
    ELSE IF gamma < 0 THEN Raise("ValueError")
    ELSE None

\* OscillatorChain1D.__post_init__: the error it raises, None if it returns
Chain_post_init(n, k, m, gamma) ==
    IF n < 1 THEN Raise("ValueError")
    ELSE IF \E x \in Elems(m) : x <= 0 THEN Raise("ValueError")
    ELSE IF \E x \in Elems(k) : x < 0 THEN Raise("ValueError")
    ELSE IF gamma < 0 THEN Raise("ValueError")
    ELSE None

NewChain(n, k, m, gamma) == [n |-> n, k |-> k, m |-> m, gamma |-> gamma]

\* `k_vals`, the N + 1 springs from the left wall to the right wall, as the
\* method derives them from self.k; an array of N - 1 springs is padded
\* with its own first and last element, which an empty array does not have
Chain_k_vals(c) ==
    LET N == c.n
        k_arr == c.k.val
    IN  IF c.k.kind = "scalar" THEN Ok(Full(N + 1, ScalarVal(c.k)))
        ELSE IF ArrLen(k_arr) = N - 1
             THEN IF ArrLen(k_arr) = 0 THEN Raise("IndexError")
                  ELSE Ok([s \in 0..N |->
                            IF s = 0 THEN k_arr[0]
                            ELSE IF s = N THEN k_arr[ArrLen(k_arr) - 1]
                            ELSE k_arr[s - 1]])
        ELSE IF ArrLen(k_arr) = N + 1 THEN Ok(k_arr)
        ELSE Raise("ValueError")

\* The body of the loop `for i in range(N)`
ChainNodeSprings(K, k_vals, N, i) ==
    LET k_left == k_vals[i]
        k_right == k_vals[i + 1]
        K1 == AddAt(K, i, i, k_left)
        K2 == IF i > 0 THEN SetAt(K1, i, i - 1, -k_left) ELSE K1
        K3 == AddAt(K2, i, i, k_right)
    IN  IF i < N - 1 THEN SetAt(K3, i, i + 1, -k_right) ELSE K3

RECURSIVE ChainAssembleFrom(_, _, _, _)
ChainAssembleFrom(K, k_vals, N, i) ==
    IF i >= N THEN K
    ELSE ChainAssembleFrom(ChainNodeSprings(K, k_vals, N, i), k_vals, N, i + 1)

\* OscillatorChain1D.stiffness_matrix()
Chain_stiffness_matrix(c) ==
    LET kv == Chain_k_vals(c)
    IN  IF IsRaise(kv) THEN kv
        ELSE Ok(ChainAssembleFrom(Zeros(c.n), kv.val, c.n, 0))

\* The arguments the model constructs chains with
MassVals == {0, 1, 2}

ChainStiffArgs(n) ==
    { Scalar(v) : v \in (-1)..MaxK }
    \cup { Array(a) : a \in UNION { [0..(len - 1) -> 0..MaxK] :
                                     len \in {n - 1, n, n + 1} \cap (0..(n + 1)) } }
    \cup { Array([Full(len, 1) EXCEPT ![i] = -1]) :
             len \in {n - 1, n + 1} \cap (1..(n + 1)), i \in 0..(n - 2) }

ChainMassArgs(n) ==
    { Scalar(v) : v \in MassVals }
    \cup { Array([Full(n, 1) EXCEPT ![i] = w]) : w \in MassVals, i \in 0..(n - 1) }

ChainIdle == chain = None /\ chain_exc = None /\ chain_K = None

\* chain = OscillatorChain1D(n, k, m, gamma)
ChainConstruct ==
    /\ chain = None /\ chain_exc = None
    /\ \E n \in 0..MaxChainN, gamma \in {-1, 0} :
         \E k \in ChainStiffArgs(n), m \in ChainMassArgs(n) :
            LET r == Chain_post_init(n, k, m, gamma)
            IN  IF r = None
                THEN chain' = Some(NewChain(n, k, m, gamma)) /\ UNCHANGED chain_exc
                ELSE chain_exc' = r /\ UNCHANGED chain
    /\ UNCHANGED chain_K

\* chain.stiffness_matrix()
ChainStiffnessMatrix ==
    /\ chain # None /\ chain_K = None
    /\ chain_K' = Chain_stiffness_matrix(chain.val)
    /\ UNCHANGED <<chain, chain_exc>>

(***************************************************************************)
(* eigenmodes() of the chain and of the grid.                              *)
(***************************************************************************)
\* The eigenvalues the solver may return: squares of 0..MaxOmega, and the
\* negatives of these (numerical noise, or an indefinite K)
EigVals == { s * w * w : w \in 0..MaxOmega, s \in {-1, 1} }

IsAscending(a) == \A i, j \in DOMAIN a : i <= j => a[i] <= a[j]

\* The eigenvector matrices (N rows, cnt columns) the model lets the solver
\* return: column c has the amplitude amp at node (c + shift) mod N and 0
\* elsewhere
EigVecs(N, cnt) ==
    { [p \in 0..(N - 1) |-> [c \in 0..(cnt - 1) |->
          IF p = (c + shift) % N THEN amp ELSE 0]] :
        shift \in 0..(N - 1), amp \in {1, 2} }

\* The ascending sequences of cnt eigenvalues, none below lo
RECURSIVE AscendingFrom(_, _)
AscendingFrom(cnt, lo) ==
    IF cnt = 0 THEN { << >> }
    ELSE UNION { { <<v>> \o rest : rest \in AscendingFrom(cnt - 1, v) } :
                 v \in { x \in EigVals : x >= lo } }

\* A sequence as a 1-D array indexed from 0
ArrayOfSeq(sq) == [i \in 0..(Len(sq) - 1) |-> sq[i + 1]]

\* scipy.linalg.eigh(K, b=M), or with subset_by_index=(0, cnt - 1): cnt
\* eigenvalues in ascending order and one eigenvector column for each
EighOutputs(N, cnt) ==
    { [eigvals |-> ArrayOfSeq(ev), eigvecs |-> vecs] :
        ev \in AscendingFrom(cnt, -(MaxOmega * MaxOmega)),
        vecs \in EigVecs(N, cnt) }

\* np.maximum(eigvals, 0.0)
ClampAbs(eigvals) == [i \in DOMAIN eigvals |-> IF eigvals[i] < 0 THEN -eigvals[i] ELSE eigvals[i]]

ClampNonNegative(eigvals) == [i \in DOMAIN eigvals |-> IF eigvals[i] > 0 THEN eigvals[i] ELSE 0]

\* The square root of a perfect square
Sqrt(x) == CHOOSE r \in 0..x : r * r = x

\* np.sqrt(eigvals)
SqrtArr(a) == [i \in DOMAIN a |-> Sqrt(a[i])]

\* np.diag(v) of a 1-D array v
Diag(v) ==
    [a \in DOMAIN v |-> [b \in DOMAIN v |-> IF a = b THEN v[a] ELSE 0]]

\* The mass matrix M of the chain
Chain_mass_matrix(c) ==
    IF c.m.kind = "scalar" THEN Diag(Full(c.n, ScalarVal(c.m))) ELSE Diag(c.m.val)

\* What OscillatorChain1D.eigenmodes() returns when the solver returns sol
Chain_eigenmodes_result(sol) ==
    [omega |-> SqrtArr(ClampNonNegative(sol.eigvals)), modes |-> sol.eigvecs]

\* mass_map.flatten() (row-major), or np.full(nx * ny, m)
Grid_m_vec(g) ==
    IF g.mass_map # None
    THEN [t \in 0..(g.nx * g.ny - 1) |-> g.mass_map.val[t \div g.nx][t % g.nx]]
    ELSE Full(g.nx * g.ny, g.m)

\* Every n_modes asks for the full spectrum
Grid_eigh_count_all(g, n_modes) == g.nx * g.ny

\* The number of eigenpairs OscillatorGrid2D.eigenmodes(n_modes) asks the
\* solver for: n_modes through subset_by_index=(0, n_modes - 1) when it is
\* given and smaller than N, else all N
Grid_eigh_count(g, n_modes) ==
    IF n_modes # None /\ n_modes.val < ArrLen(Grid_m_vec(g)) THEN n_modes.val
    ELSE g.nx * g.ny

\* The subset_by_index argument of the solver call, None when it has none
Grid_eigh_subset(g, n_modes) ==
    IF n_modes # None /\ n_modes.val < ArrLen(Grid_m_vec(g))
    THEN Some(<<0, n_modes.val - 1>>)
    ELSE None

\* What OscillatorGrid2D.eigenmodes(n_modes) returns when the solver
\* returns sol
Grid_eigenmodes_result(sol) ==
    [omega |-> SqrtArr(ClampNonNegative(sol.eigvals)), modes |-> sol.eigvecs]

\* A call of scipy.linalg.eigh(K, b=M) that returned sol
EighCall(K, M, sol) ==
    [K |-> K, b |-> M, eigvals |-> sol.eigvals, eigvecs |-> sol.eigvecs]

EigIdle == eigh_out = None /\ modes_out = None /\ eig_args = None

\* The chains and grids whose eigenmodes the model computes
EigChainInit ==
    /\ \E n \in 1..MaxEigN, m \in {1, 2} :
         \E k \in {Scalar(1), Array(Full(n - 1, 1))} :
            chain = Some(NewChain(n, k, Scalar(m), 0))
    /\ chain_exc = None /\ chain_K = None

EigGridInit ==
    /\ \E nx \in 1..MaxEigN, ny \in {1, 2}, m \in {1, 2} :
          grid = NewGrid(nx, ny, 1, 1, m, None, None, None)
    /\ grid_K = None

\* chain.eigenmodes(): an exception of stiffness_matrix() propagates
ChainEigenmodes ==
    /\ chain # None /\ modes_out = None
    /\ LET K == Chain_stiffness_matrix(chain.val)
       IN  IF IsRaise(K)
           THEN modes_out' = K /\ UNCHANGED eigh_out
                /\ eig_args' = Some([n_modes |-> None, subset_by_index |-> None])
           ELSE \E sol \in EighOutputs(chain.val.n, chain.val.n) :
                   /\ eig_args' = Some([n_modes |-> None, subset_by_index |-> None])
                   /\ eigh_out' = Some(EighCall(K.val, Chain_mass_matrix(chain.val), sol))
                   /\ modes_out' = Ok(Chain_eigenmodes_result(sol))
    /\ UNCHANGED <<chainVars, gridVars>>

\* grid.eigenmodes(n_modes); the solver refuses the index range (0, -1)
\* with a ValueError
GridEigenmodes ==
    /\ grid # None /\ modes_out = None
    /\ \E n_modes \in {None} \cup { Some(v) : v \in 0..(grid.nx * grid.ny + 1) } :
         LET cnt == Grid_eigh_count(grid, n_modes)
         IN  /\ eig_args' = Some([n_modes |-> n_modes,
                                  subset_by_index |-> Grid_eigh_subset(grid, n_modes)])
             /\ IF cnt < 1
                THEN modes_out' = Raise("ValueError") /\ UNCHANGED eigh_out
                ELSE \E sol \in EighOutputs(grid.nx * grid.ny, cnt) :
                        /\ eigh_out' = Some(EighCall(Grid_stiffness_matrix(grid),
                                                     Diag(Grid_m_vec(grid)), sol))
                        /\ modes_out' = Ok(Grid_eigenmodes_result(sol))
    /\ UNCHANGED <<chainVars, gridVars>>

(***************************************************************************)
(* ldos_from_modes (ldos.py).                                              *)
(***************************************************************************)
\* mask = (omegas >= w_min) & (omegas <= w_max)
LdosMaskOpenAbove(omegas, freq_window) ==
    [i \in DOMAIN omegas |-> omegas[i] >= freq_window[1] /\ omegas[i] < freq_window[2]]

LdosMask(omegas, freq_window) ==
    [i \in DOMAIN omegas |-> omegas[i] >= freq_window[1] /\ omegas[i] <= freq_window[2]]

\* np.sum(modes[:, mask], axis=1) at one row: the entries are not squared
RECURSIVE SumSelectedSquares_unsquared(_, _, _)
SumSelectedSquares_unsquared(row, mask, c) ==
    IF c \notin DOMAIN row THEN 0
    ELSE (IF mask[c] THEN row[c] ELSE 0) + SumSelectedSquares_unsquared(row, mask, c + 1)

\* np.sum(modes[:, mask]**2, axis=1) at one row: the squares of the row's
\* entries in the masked columns, added from column c on
RECURSIVE SumSelectedSquares(_, _, _)
SumSelectedSquares(row, mask, c) ==
    IF c \notin DOMAIN row THEN 0
    ELSE (IF mask[c] THEN row[c] * row[c] ELSE 0) + SumSelectedSquares(row, mask, c + 1)

\* ldos_from_modes(modes, omegas, freq_window); modes.shape[0] is the
\* number of rows
ldos_from_modes(modes, omegas, freq_window) ==
    LET mask == LdosMask(omegas, freq_window)
    IN  IF ~(\E i \in DOMAIN mask : mask[i])
        THEN Full(ArrLen(modes), 0)
        ELSE [p \in DOMAIN modes |-> SumSelectedSquares(modes[p], mask, 0)]

\* The arguments the model calls ldos_from_modes with: 1 or 2 spatial
\* points, up to MaxLdosModes modes with frequencies 1 or 2 in any order,
\* and a window with ends in 0..3 (inverted windows included)
LdosModeVals == {-1, 0, 2}
LdosFreqs == {1, 2}
LdosWindowEnds == 0..3

LdosIdle == ldos_in = None /\ ldos_out = None

LdosInit ==
    /\ \E np \in {1, 2}, nm \in 0..MaxLdosModes :
         \E modes \in [0..(np - 1) -> [0..(nm - 1) -> LdosModeVals]],
            omegas \in [0..(nm - 1) -> LdosFreqs],
            w_min \in LdosWindowEnds, w_max \in LdosWindowEnds :
              ldos_in = Some([modes |-> modes, omegas |-> omegas,
                              freq_window |-> <<w_min, w_max>>])
    /\ ldos_out = None

\* ldos = ldos_from_modes(modes, omegas, freq_window)
LdosFromModes ==
    /\ ldos_in # None /\ ldos_out = None
    /\ ldos_out' = Ok(ldos_from_modes(ldos_in.val.modes, ldos_in.val.omegas,
                                       ldos_in.val.freq_window))
    /\ UNCHANGED ldos_in

(***************************************************************************)
(* Exact numbers for the spectra: a power value is a fraction num/den in   *)
(* lowest terms with den > 0, and the square root of a fraction is kept as *)
(* the fraction under the root, so two roots are equal exactly when the    *)
(* records are equal.                                                      *)
(***************************************************************************)
Abs(x) == IF x < 0 THEN -x ELSE x

RECURSIVE GCD(_, _)
GCD(a, b) == IF b = 0 THEN a ELSE GCD(b, a % b)

Frac(n, d) ==
    LET g == GCD(Abs(n), Abs(d))
        sgn == IF d < 0 THEN -1 ELSE 1
    IN  [num |-> (sgn * n) \div g, den |-> (sgn * d) \div g]

FracAdd(a, b) == Frac(a.num * b.den + b.num * a.den, a.den * b.den)
FracSub(a, b) == Frac(a.num * b.den - b.num * a.den, a.den * b.den)
FracMul(a, b) == Frac(a.num * b.num, a.den * b.den)
\* a / b, the common factor of the two denominators cancelled first
FracDiv(a, b) ==
    LET g == GCD(a.den, b.den)
    IN  Frac(a.num * (b.den \div g), (a.den \div g) * b.num)
FracLess(a, b) == a.num * b.den < b.num * a.den
FracZero == Frac(0, 1)
FracOne == Frac(1, 1)

\* np.sum of an array of fractions, added from index i on
RECURSIVE SumFrom(_, _)
SumFrom(a, i) == IF i \notin DOMAIN a THEN FracZero ELSE FracAdd(a[i], SumFrom(a, i + 1))

\* np.sqrt of a non-negative fraction
SqrtFrac(f) == [sqrt_of |-> f]

(***************************************************************************)
(* Spectrum1D(omega=, power=): the two arrays of a spectrum.  The class    *)
(* that material.py imports is not in spectrum.py of this tree (which      *)
(* holds the older freqs/amps class); total_power() and normalize() follow *)
(* the specification and tests/test_spectrum.py.                           *)
(***************************************************************************)
Spectrum1D(omega, power) == [omega |-> omega, power |-> power]

Spectrum_total_power(s) == SumFrom(s.power, 0)

ZeroPowerError == Raise("ValueError: zero total power")

\* Spectrum1D.normalize(): a new spectrum with power / total_power()
Spectrum_normalize(s) ==
    LET total == Spectrum_total_power(s)
    IN  IF total = FracZero THEN ZeroPowerError
        ELSE Ok(Spectrum1D(s.omega, [i \in DOMAIN s.power |-> FracDiv(s.power[i], total)]))

(***************************************************************************)
(* MaterialSignature (material.py).                                        *)
(***************************************************************************)
\* np.array_equal(a, b): the same shape and equal elements
array_equal(a, b) == ArrLen(a) = ArrLen(b) /\ \A i \in DOMAIN a : a[i] = b[i]

GridMismatchError == Raise("ValueError: Frequency grids do not match")

\* diff = a - b; np.sqrt(np.sum(diff ** 2))
L2OfPowers(a, b) ==
    LET diff == [i \in DOMAIN a |-> FracSub(a[i], b[i])]
    IN  SqrtFrac(SumFrom([i \in DOMAIN diff |-> FracMul(diff[i], diff[i])], 0))

\* distance_l2 that compares the reference's normalized power with the
\* other spectrum's raw power
distance_l2_rawOther(reference, other) ==
    IF ~array_equal(reference.omega, other.omega) THEN GridMismatchError
    ELSE LET ref_normalized == Spectrum_normalize(reference)
         IN  IF IsRaise(ref_normalized) THEN ref_normalized
             ELSE Ok(L2OfPowers(ref_normalized.val.power, other.power))

\* distance_l2 that normalizes both spectra before it looks at the grids
distance_l2_normalizeFirst(reference, other) ==
    LET ref_normalized == Spectrum_normalize(reference)
        other_normalized == Spectrum_normalize(other)
    IN  IF IsRaise(ref_normalized) THEN ref_normalized
        ELSE IF IsRaise(other_normalized) THEN other_normalized
        ELSE IF ~array_equal(reference.omega, other.omega) THEN GridMismatchError
        ELSE Ok(L2OfPowers(ref_normalized.val.power, other_normalized.val.power))

\* MaterialSignature.distance_l2(other), self.reference = reference
distance_l2(reference, other) ==
    IF ~array_equal(reference.omega, other.omega) THEN GridMismatchError
    ELSE LET ref_normalized == Spectrum_normalize(reference)
             other_normalized == Spectrum_normalize(other)
         IN  IF IsRaise(ref_normalized) THEN ref_normalized
             ELSE IF IsRaise(other_normalized) THEN other_normalized
             ELSE Ok(L2OfPowers(ref_normalized.val.power, other_normalized.val.power))

\* 1.0 - cosine_similarity, the similarity being the root of a fraction
OneMinusSqrt(f) == [one_minus_sqrt_of |-> f]

\* distance_cosine that returns 0.0 for a vector of zero norm
distance_cosine_zeroNormIsZero(reference, other) ==
    IF ~array_equal(reference.omega, other.omega) THEN GridMismatchError
    ELSE LET a == reference.power
             b == other.power
             norm_a_sq == SumFrom([i \in DOMAIN a |-> FracMul(a[i], a[i])], 0)
             norm_b_sq == SumFrom([i \in DOMAIN b |-> FracMul(b[i], b[i])], 0)
             dot == SumFrom([i \in DOMAIN a |-> FracMul(a[i], b[i])], 0)
         IN  IF norm_a_sq = FracZero \/ norm_b_sq = FracZero THEN Ok(OneMinusSqrt(FracOne))
             ELSE LET cos_sq == FracDiv(FracMul(dot, dot), FracMul(norm_a_sq, norm_b_sq))
                  IN  IF ~FracLess(FracZero, dot) THEN Ok(OneMinusSqrt(FracZero))
                      ELSE IF FracLess(FracOne, cos_sq) THEN Ok(OneMinusSqrt(FracOne))
                      ELSE Ok(OneMinusSqrt(cos_sq))

\* MaterialSignature.distance_cosine(other): np.linalg.norm is the root
\* of the sum of squares and np.clip(x, 0, 1) keeps x in [0, 1]
distance_cosine(reference, other) ==
    IF ~array_equal(reference.omega, other.omega) THEN GridMismatchError
    ELSE LET a == reference.power
             b == other.power
             norm_a_sq == SumFrom([i \in DOMAIN a |-> FracMul(a[i], a[i])], 0)
             norm_b_sq == SumFrom([i \in DOMAIN b |-> FracMul(b[i], b[i])], 0)
             dot == SumFrom([i \in DOMAIN a |-> FracMul(a[i], b[i])], 0)
         IN  IF norm_a_sq = FracZero \/ norm_b_sq = FracZero THEN Ok(OneMinusSqrt(FracZero))
             ELSE LET cos_sq == FracDiv(FracMul(dot, dot), FracMul(norm_a_sq, norm_b_sq))
                  IN  IF ~FracLess(FracZero, dot) THEN Ok(OneMinusSqrt(FracZero))
                      ELSE IF FracLess(FracOne, cos_sq) THEN Ok(OneMinusSqrt(FracOne))
                      ELSE Ok(OneMinusSqrt(cos_sq))

\* is_anomalous with distance >= threshold
Signature_is_anomalous_atLeast(reference, other, threshold) ==
    LET distance == distance_l2(reference, other)
    IN  IF IsRaise(distance) THEN distance
        ELSE Ok(~FracLess(distance.val.sqrt_of, threshold.sqrt_of))

\* MaterialSignature.is_anomalous(other, threshold): distance > threshold,
\* both being roots of fractions
Signature_is_anomalous(reference, other, threshold) ==
    LET distance == distance_l2(reference, other)
    IN  IF IsRaise(distance) THEN distance
        ELSE Ok(FracLess(threshold.sqrt_of, distance.val.sqrt_of))

\* The spectra the model builds: power values 0, 1 or 2 on every bin
PowerVals == {0, 1, 2}

IntPower(p) == [i \in DOMAIN p |-> Frac(p[i], 1)]

\* The grid omega = 1, 2, ..., n and the same grid with its last bin moved
OmegaGrid(n) == [i \in 0..(n - 1) |-> i + 1]
ShiftedGrid(n) == [i \in 0..(n - 1) |-> IF i = n - 1 THEN i + 2 ELSE i + 1]

\* The reference spectra: up to MaxBins bins
RefSpectra ==
    UNION { { Spectrum1D(OmegaGrid(n), IntPower(p)) : p \in [0..(n - 1) -> PowerVals] }
            : n \in 1..MaxBins }

\* The spectra a reference of n bins is compared with: every power vector
\* on the reference's grid, and all-zero and all-one power on a grid with
\* a moved bin, with one bin less and with one bin more
OtherSpectra(n) ==
    { Spectrum1D(OmegaGrid(n), IntPower(p)) : p \in [0..(n - 1) -> PowerVals] }
    \cup { Spectrum1D(ShiftedGrid(n), IntPower(Full(n, v))) : v \in {0, 1} }
    \cup { Spectrum1D(OmegaGrid(n - 1), IntPower(Full(n - 1, v))) : v \in {0, 1} }
    \cup { Spectrum1D(OmegaGrid(n + 1), IntPower(Full(n + 1, v))) : v \in {0, 1} }

\* The factors c > 0 a power vector is rescaled by
ScaleFactors == {Frac(1, 2), Frac(3, 1)}

\* Spectrum1D(omega=s.omega, power=c * s.power)
Rescaled(s, c) == Spectrum1D(s.omega, [i \in DOMAIN s.power |-> FracMul(c, s.power[i])])

SigIdle == sig_ref = None /\ sig_other = None /\ sig_calls = {}

SigInit ==
    /\ sig_ref \in RefSpectra
    /\ sig_other \in OtherSpectra(ArrLen(sig_ref.omega))
    /\ sig_calls = {}

\* d = MaterialSignature(reference=sig_ref).distance_l2(other), with other
\* the observed spectrum or a rescaling of it
SigDistanceL2 ==
    /\ Cardinality(sig_calls) < MaxCalls
    /\ \E c \in ScaleFactors \cup {FracOne} :
         LET other == Rescaled(sig_other, c)
             call == [other |-> other, result |-> distance_l2(sig_ref, other)]
         IN  /\ call \notin sig_calls
             /\ sig_calls' = sig_calls \cup {call}
    /\ UNCHANGED <<sig_ref, sig_other>>

(***************************************************************************)
(* HealthProfile (material.py).                                            *)
(***************************************************************************)
\* dict operations: a dict is a function on its keys
EmptyDict == [k \in {} |-> None]
DictPut(d, key, v) == [k \in DOMAIN d \cup {key} |-> IF k = key THEN v ELSE d[k]]
DictGet(d, key) == IF key \in DOMAIN d THEN Ok(d[key]) ELSE Raise("KeyError")

\* `name in current and name in thresholds` without the test of thresholds
InCurrentOnly(name, current, thresholds) == name \in DOMAIN current

\* name in current and name in thresholds
InCurrentAndThresholds(name, current, thresholds) ==
    name \in DOMAIN current /\ name \in DOMAIN thresholds

\* HealthProfile.score: the loop over self.signatures.items() from the
\* i-th item on; an exception of distance_l2 leaves the loop
RECURSIVE ScoreFrom(_, _, _, _)
ScoreFrom(signatures, current, i, scores) ==
    IF i > Len(signatures) THEN Ok(scores)
    ELSE LET name == signatures[i].name
         IN  IF name \in DOMAIN current
             THEN LET d == distance_l2(signatures[i].reference, current[name])
                  IN  IF IsRaise(d) THEN d
                      ELSE ScoreFrom(signatures, current, i + 1, DictPut(scores, name, d.val))
             ELSE ScoreFrom(signatures, current, i + 1, scores)

HealthProfile_score(signatures, current) == ScoreFrom(signatures, current, 1, EmptyDict)

\* HealthProfile.is_anomalous: the loop over self.signatures.items()
RECURSIVE AnomalousFrom(_, _, _, _, _)
AnomalousFrom(signatures, current, thresholds, i, results) ==
    IF i > Len(signatures) THEN Ok(results)
    ELSE LET name == signatures[i].name
         IN  IF InCurrentAndThresholds(name, current, thresholds)
             THEN LET th == DictGet(thresholds, name)
                      r == Signature_is_anomalous(signatures[i].reference,
                                                  current[name], th.val)
                  IN  IF IsRaise(th) THEN th
                      ELSE IF IsRaise(r) THEN r
                      ELSE AnomalousFrom(signatures, current, thresholds, i + 1,
                                         DictPut(results, name, r.val))
             ELSE AnomalousFrom(signatures, current, thresholds, i + 1, results)

HealthProfile_is_anomalous(signatures, current, thresholds) ==
    AnomalousFrom(signatures, current, thresholds, 1, EmptyDict)

\* The channels and spectra of the profiles the model builds: two-bin
\* spectra on the grid (1, 2), and observations on that grid, on the grid
\* (1, 3) and on the one-bin grid
ProfileChannels == {"a", "b"}
ObservedChannels == {"a", "b", "x"}
HpRefSpectra == { Spectrum1D(OmegaGrid(2), IntPower(ArrayOfSeq(p))) : p \in {<<1, 1>>, <<1, 0>>, <<0, 0>>} }
HpObsSpectra ==
    { Spectrum1D(OmegaGrid(2), IntPower(ArrayOfSeq(p))) : p \in {<<1, 1>>, <<0, 1>>, <<0, 0>>} }
    \cup { Spectrum1D(ShiftedGrid(2), IntPower(Full(2, v))) : v \in {0, 1} }
HpOneBin == Spectrum1D(OmegaGrid(1), IntPower(Full(1, 1)))
ThresholdVals == {SqrtFrac(FracZero), SqrtFrac(Frac(1, 2))}

\* The dicts passed as `current` and as `thresholds`: any set of channels
\* as keys, the channel "x" that no profile has with one value only
CurrentDicts ==
    { d \in UNION { [S -> HpObsSpectra] : S \in SUBSET ObservedChannels } :
        "x" \in DOMAIN d => d["x"] = Spectrum1D(OmegaGrid(2), IntPower(Full(2, 1))) }
ThresholdDicts ==
    { d \in UNION { [S -> ThresholdVals] : S \in SUBSET ObservedChannels } :
        "x" \in DOMAIN d => d["x"] = SqrtFrac(FracZero) }

\* The profiles: up to two channels, in either dict order
HpProfiles ==
    { sigs \in UNION { [1..n -> [name : ProfileChannels, reference : HpRefSpectra]]
                       : n \in 0..2 } :
        \A i, j \in DOMAIN sigs : i # j => sigs[i].name # sigs[j].name }

HpIdle == hp_signatures = << >> /\ hp_out = None

HpInit == hp_signatures \in HpProfiles /\ hp_out = None

\* scores = profile.score(current)
HpScore ==
    /\ hp_out = None
    /\ \E current \in CurrentDicts :
         hp_out' = Some([op |-> "score", current |-> current,
                         result |-> HealthProfile_score(hp_signatures, current)])
    /\ UNCHANGED hp_signatures

\* flags = profile.is_anomalous(current, thresholds)
HpIsAnomalous ==
    /\ hp_out = None
    /\ \E current \in CurrentDicts, thresholds \in ThresholdDicts :
         hp_out' = Some([op |-> "is_anomalous", current |-> current,
                         thresholds |-> thresholds,
                         result |-> HealthProfile_is_anomalous(hp_signatures, current,
                                                               thresholds)])
    /\ UNCHANGED hp_signatures

\* profile.signatures[name].distance_l2(other)
HpSignatureDistanceL2 ==
    /\ hp_out = None
    /\ \E i \in DOMAIN hp_signatures, other \in HpObsSpectra \cup {HpOneBin} :
         hp_out' = Some([op |-> "distance_l2", reference |-> hp_signatures[i].reference,
                         other |-> other,
                         result |-> distance_l2(hp_signatures[i].reference, other)])
    /\ UNCHANGED hp_signatures

\* profile.signatures[name].distance_cosine(other)
HpSignatureDistanceCosine ==
    /\ hp_out = None
    /\ \E i \in DOMAIN hp_signatures, other \in HpObsSpectra \cup {HpOneBin} :
         hp_out' = Some([op |-> "distance_cosine", reference |-> hp_signatures[i].reference,
                         other |-> other,
                         result |-> distance_cosine(hp_signatures[i].reference, other)])
    /\ UNCHANGED hp_signatures

\* profile.signatures[name].is_anomalous(other, threshold)
HpSignatureIsAnomalous ==
    /\ hp_out = None
    /\ \E i \in DOMAIN hp_signatures, other \in HpObsSpectra \cup {HpOneBin},
          threshold \in ThresholdVals :
         hp_out' = Some([op |-> "signature.is_anomalous",
                         reference |-> hp_signatures[i].reference,
                         other |-> other, threshold |-> threshold,
                         result |-> Signature_is_anomalous(hp_signatures[i].reference,
                                                           other, threshold)])
    /\ UNCHANGED hp_signatures

(***************************************************************************)
(* OscillatorGrid2D.ldos_map (medium_2d.py) and the NDT profile (ndt.py).  *)
(* LDOS maps are (ny, nx) arrays of fractions.                             *)
(***************************************************************************)
\* A reshape that fills the map column by column
Reshape_byColumns(flat, ny, nx) ==
    [i \in 0..(ny - 1) |-> [j \in 0..(nx - 1) |-> Frac(flat[j * ny + i], 1)]]

\* ldos_flat.reshape((ny, nx)), the values as fractions
Reshape(flat, ny, nx) ==
    [i \in 0..(ny - 1) |-> [j \in 0..(nx - 1) |-> Frac(flat[i * nx + j], 1)]]

\* What g.ldos_map(n_modes, freq_window) can return: an exception of
\* eigenmodes() propagates, else there is one map for each answer of the
\* solver
Grid_ldos_map(g, n_modes, freq_window) ==
    LET cnt == Grid_eigh_count(g, Some(n_modes))
    IN  IF cnt < 1 THEN {Raise("ValueError")}
        ELSE { LET r == Grid_eigenmodes_result(sol)
               IN  Ok(Reshape(ldos_from_modes(r.modes, r.omega, freq_window), g.ny, g.nx))
               : sol \in EighOutputs(g.nx * g.ny, cnt) }

FracMax(a, b) == IF FracLess(a, b) THEN b ELSE a

\* 1e-3, the least mass of a perturbed node
MassFloor == Frac(1, 1000)

\* base_mass_map: grid.mass_map.copy(), or np.full((ny, nx), grid.m)
Ndt_base_mass_map(g) ==
    IF g.mass_map # None THEN g.mass_map.val ELSE FullMap(g.ny, g.nx, g.m)

\* temp_grid with mass_map = base_mass_map + noise, not floored
Ndt_temp_grid_noFloor(g, noise) ==
    LET base_mass_map == Ndt_base_mass_map(g)
        current_mass == [i \in 0..(g.ny - 1) |-> [j \in 0..(g.nx - 1) |->
                            Frac(base_mass_map[i][j] + noise[i][j], 1)]]
    IN  NewGrid(g.nx, g.ny, g.kx, g.ky, g.m, Some(current_mass), g.kx_map, g.ky_map)

\* temp_grid: the grid with mass_map = np.maximum(base_mass_map + noise, 1e-3)
Ndt_temp_grid(g, noise) ==
    LET base_mass_map == Ndt_base_mass_map(g)
        current_mass == [i \in 0..(g.ny - 1) |-> [j \in 0..(g.nx - 1) |->
                            FracMax(Frac(base_mass_map[i][j] + noise[i][j], 1), MassFloor)]]
    IN  NewGrid(g.nx, g.ny, g.kx, g.ky, g.m, Some(current_mass), g.kx_map, g.ky_map)

\* ldos_stack[:, i, j]: the values of the samples at one cell
CellStack(ldos_maps, i, j) == [s \in DOMAIN ldos_maps |-> ldos_maps[s][i][j]]

\* The sum of the stack, not divided by the number of samples
StackSum(ldos_maps) ==
    [i \in DOMAIN ldos_maps[1] |-> [j \in DOMAIN ldos_maps[1][i] |->
        SumFrom(CellStack(ldos_maps, i, j), 1)]]

\* np.mean(ldos_stack, axis=0)
StackMean(ldos_maps) ==
    [i \in DOMAIN ldos_maps[1] |-> [j \in DOMAIN ldos_maps[1][i] |->
        FracDiv(SumFrom(CellStack(ldos_maps, i, j), 1), Frac(Len(ldos_maps), 1))]]

\* The root of a fraction whose numerator and denominator are squares
SqrtExact(f) == Frac(Sqrt(f.num), Sqrt(f.den))

\* np.std(ldos_stack, axis=0): the root of the mean squared deviation
\* from the mean of the cell
StackStd(ldos_maps) ==
    [i \in DOMAIN ldos_maps[1] |-> [j \in DOMAIN ldos_maps[1][i] |->
        LET x == CellStack(ldos_maps, i, j)
            mean == FracDiv(SumFrom(x, 1), Frac(Len(ldos_maps), 1))
            sq == [s \in DOMAIN x |-> FracMul(FracSub(x[s], mean), FracSub(x[s], mean))]
        IN  SqrtExact(FracDiv(SumFrom(sq, 1), Frac(Len(ldos_maps), 1)))]]

NDTProfile(freq_window, ldos_mean, ldos_std) ==
    [freq_window |-> freq_window, ldos_mean |-> ldos_mean, ldos_std |-> ldos_std]

\* build_ndt_profile after its sampling loop: the profile of the stack
Ndt_profile_of(freq_window, ldos_maps, n_samples, noise_level) ==
    LET mean_ldos == StackMean(ldos_maps)
        std_ldos == IF n_samples > 1 /\ noise_level > 0
                    THEN StackStd(ldos_maps)
                    ELSE [i \in DOMAIN mean_ldos |-> [j \in DOMAIN mean_ldos[i] |-> Frac(0, 1)]]
    IN  NDTProfile(freq_window, mean_ldos, std_ldos)

\* np.max of a map
MapMax(a) ==
    CHOOSE v \in UNION { { a[i][j] : j \in DOMAIN a[i] } : i \in DOMAIN a } :
        \A i \in DOMAIN a : \A j \in DOMAIN a[i] : ~FracLess(v, a[i][j])

FracAbs(a) == Frac(Abs(a.num), a.den)

\* The floats that are no numbers: nan, inf and -inf
NaN == [kind |-> "nan"]
PosInf == [kind |-> "inf"]
NegInf == [kind |-> "-inf"]
IsFinite(x) == x \notin {NaN, PosInf, NegInf}

\* a / b of numpy for finite a and b: x / 0 is inf or -inf, 0 / 0 is nan
np_divide(a, b) ==
    IF b # FracZero THEN FracDiv(a, b)
    ELSE IF a = FracZero THEN NaN
    ELSE IF FracLess(FracZero, a) THEN PosInf ELSE NegInf

\* a > b of numpy for a finite b: False for nan
np_greater(a, b) ==
    IF a = NaN \/ a = NegInf THEN FALSE
    ELSE IF a = PosInf THEN TRUE
    ELSE FracLess(b, a)

\* A score that adds epsilon above the line as well as below it
ZScoreSmoothed(diff, std, epsilon) == np_divide(FracAdd(diff, epsilon), FracAdd(std, epsilon))

\* diff / (profile.ldos_std + epsilon) at one cell
ZScore(diff, std, epsilon) == np_divide(diff, FracAdd(std, epsilon))

\* score_ndt_state that takes the z-score when max(std) equals epsilon too
score_ndt_state_atLeast(profile, ldos_current, epsilon) ==
    LET diff == [i \in DOMAIN ldos_current |-> [j \in DOMAIN ldos_current[i] |->
                    FracAbs(FracSub(ldos_current[i][j], profile.ldos_mean[i][j]))]]
    IN  IF ~FracLess(MapMax(profile.ldos_std), epsilon)
        THEN [i \in DOMAIN diff |-> [j \in DOMAIN diff[i] |->
                 ZScore(diff[i][j], profile.ldos_std[i][j], epsilon)]]
        ELSE diff

\* score_ndt_state(profile, ldos_current, epsilon)
score_ndt_state(profile, ldos_current, epsilon) ==
    LET diff == [i \in DOMAIN ldos_current |-> [j \in DOMAIN ldos_current[i] |->
                    FracAbs(FracSub(ldos_current[i][j], profile.ldos_mean[i][j]))]]
    IN  IF FracLess(epsilon, MapMax(profile.ldos_std))
        THEN [i \in DOMAIN diff |-> [j \in DOMAIN diff[i] |->
                 ZScore(diff[i][j], profile.ldos_std[i][j], epsilon)]]
        ELSE diff

\* ndt_defect_mask(scores, threshold)
ndt_defect_mask(scores, threshold) ==
    [i \in DOMAIN scores |-> [j \in DOMAIN scores[i] |-> np_greater(scores[i][j], threshold)]]

\* The grids the model builds profiles of: 1 or 2 nodes, unit stiffness,
\* the scalar mass 1 or a mass_map of 2s
NdtShapes == {<<1, 1>>, <<2, 1>>, <<1, 2>>}
NdtGrids ==
    UNION { { NewGrid(sh[1], sh[2], 1, 1, 1, mm, None, None) :
                mm \in {None, Some(FullMap(sh[2], sh[1], 2))} } : sh \in NdtShapes }
NdtModeCounts == {0, 1, 2}
NdtWindows == {<<0, MaxOmega>>, <<1, 1>>, <<2, 1>>}

\* noise_level: none, or a positive standard deviation; the noise of one
\* node is then any of NoiseVals
NoiseLevels == {0, 1}
NoiseVals == {-2, 0, 1}
NoiseMaps(g) == [0..(g.ny - 1) -> [0..(g.nx - 1) -> NoiseVals]]

\* epsilon: the default 1e-6, and 1, 0 and -1
Epsilons == {Frac(1, 1000000), Frac(1, 1), Frac(0, 1), Frac(-1, 1)}
NdtThresholds == {Frac(-1, 1), Frac(0, 1), Frac(1, 1)}

NdtIdle ==
    /\ ndt_grid = None /\ ndt_args = None /\ ndt_ldos = None /\ ndt_build = None
    /\ ndt_profile = None /\ ndt_scores = None /\ ndt_mask = None

\* A grid, and the n_modes and freq_window its LDOS maps are asked with
NdtGridInit ==
    /\ ndt_grid \in NdtGrids
    /\ ndt_args \in [n_modes : NdtModeCounts, freq_window : NdtWindows]
    /\ ndt_ldos = None /\ ndt_build = None /\ ndt_profile = None
    /\ ndt_scores = None /\ ndt_mask = None

\* NDTProfile(freq_window, ldos_mean, ldos_std) built directly, and an
\* LDOS map to score: 1 x 2 maps
NdtProfileInit ==
    /\ ndt_grid = None /\ ndt_args = None /\ ndt_build = None
    /\ \E mean \in [{0} -> [0..1 -> {0, 1}]], std \in [{0} -> [0..1 -> {0, 1}]] :
         ndt_profile = Ok(NDTProfile(<<0, 1>>,
                             [i \in {0} |-> [j \in 0..1 |-> Frac(mean[i][j], 1)]],
                             [i \in {0} |-> [j \in 0..1 |-> Frac(std[i][j], 1)]]))
    /\ \E cur \in [{0} -> [0..1 -> {0, 1, 2}]] :
         ndt_ldos = Ok([i \in {0} |-> [j \in 0..1 |-> Frac(cur[i][j], 1)]])
    /\ ndt_scores = None /\ ndt_mask = None

\* ldos = grid.ldos_map(n_modes, freq_window); the solver is a function,
\* so a later call on the same grid gives this map again
NdtLdosMap ==
    /\ ndt_grid # None /\ ndt_ldos = None
    /\ ndt_ldos' \in Grid_ldos_map(ndt_grid, ndt_args.n_modes, ndt_args.freq_window)
    /\ UNCHANGED <<ndt_grid, ndt_args, ndt_build, ndt_profile, ndt_scores, ndt_mask>>

\* profile = build_ndt_profile(grid, n_modes, freq_window, n_samples,
\* noise_level); with noise the model draws at most two samples, whose
\* standard deviation |x - y| / 2 is a fraction
NdtBuildProfile ==
    /\ ndt_grid # None /\ ndt_build = None
    /\ \E n_samples \in 1..MaxSamples, noise_level \in NoiseLevels :
         /\ noise_level = 0 \/ n_samples <= 2
         /\ ndt_build' = Some([n_samples |-> n_samples, noise_level |-> noise_level])
         /\ IF noise_level > 0
            THEN LET maps == UNION { Grid_ldos_map(Ndt_temp_grid(ndt_grid, noise),
                                                   ndt_args.n_modes, ndt_args.freq_window)
                                     : noise \in NoiseMaps(ndt_grid) }
                 IN  /\ \E ldos_maps \in [1..n_samples -> maps] :
                          ndt_profile' =
                              IF IsRaise(ldos_maps[1]) THEN ldos_maps[1]
                              ELSE Ok(Ndt_profile_of(ndt_args.freq_window,
                                                     [s \in 1..n_samples |-> ldos_maps[s].val],
                                                     n_samples, noise_level))
                     /\ UNCHANGED ndt_ldos
            ELSE \E ldos \in IF ndt_ldos # None THEN {ndt_ldos}
                              ELSE Grid_ldos_map(ndt_grid, ndt_args.n_modes,
                                                 ndt_args.freq_window) :
                     /\ ndt_ldos' = ldos
                     /\ ndt_profile' =
                            IF IsRaise(ldos) THEN ldos
                            ELSE Ok(Ndt_profile_of(ndt_args.freq_window,
                                                   [s \in 1..n_samples |-> ldos.val],
                                                   n_samples, noise_level))
    /\ UNCHANGED <<ndt_grid, ndt_args, ndt_scores, ndt_mask>>

\* scores = score_ndt_state(profile, ldos, epsilon)
NdtScore ==
    /\ IsOk(ndt_profile) /\ IsOk(ndt_ldos) /\ ndt_scores = None
    /\ \E epsilon \in Epsilons :
         ndt_scores' = Some([epsilon |-> epsilon,
                             scores |-> score_ndt_state(ndt_profile.val, ndt_ldos.val, epsilon)])
    /\ UNCHANGED <<ndt_grid, ndt_args, ndt_ldos, ndt_build, ndt_profile, ndt_mask>>

\* mask = ndt_defect_mask(scores, threshold)
NdtDefectMask ==
    /\ ndt_scores # None /\ ndt_mask = None
    /\ \E threshold \in NdtThresholds :
         ndt_mask' = Some([threshold |-> threshold,
                           mask |-> ndt_defect_mask(ndt_scores.val.scores, threshold)])
    /\ UNCHANGED <<ndt_grid, ndt_args, ndt_ldos, ndt_build, ndt_profile, ndt_scores>>

(***************************************************************************)
(* HealthMonitor (diagnostics.py).                                         *)
(***************************************************************************)
\* HealthMonitor(reference, threshold): float(threshold) keeps the value
HealthMonitor(reference, threshold) ==
    [signature |-> [reference |-> reference], threshold |-> threshold]

\* HealthMonitor.score(current)
HealthMonitor_score(monitor, current) ==
    distance_l2(monitor.signature.reference, current)

\* HealthMonitor.is_anomalous(current)
HealthMonitor_is_anomalous(monitor, current) ==
    Signature_is_anomalous(monitor.signature.reference, current, monitor.threshold)

\* The spectra of the monitors: power -1, 0, 1 or 2 on up to MaxBins bins
MonPowerVals == {-1, 0, 1, 2}
MonSpectra(n) ==
    { Spectrum1D(OmegaGrid(n), IntPower(p)) : p \in [0..(n - 1) -> MonPowerVals] }
MonRefSpectra == UNION { MonSpectra(n) : n \in 1..MaxBins }

\* The spectra a monitor of n bins is asked about: every power vector on
\* its grid, and all-one power on a moved grid and on a shorter grid
MonOtherSpectra(n) ==
    MonSpectra(n)
    \cup { Spectrum1D(ShiftedGrid(n), IntPower(Full(n, 1))),
           Spectrum1D(OmegaGrid(n - 1), IntPower(Full(n - 1, 1))) }

\* The thresholds: 0, sqrt(1/2), 1 and sqrt(2)
MonThresholds ==
    { SqrtFrac(f) : f \in {FracZero, Frac(1, 2), FracOne, Frac(2, 1)} }

MonIdle == mon = None /\ mon_out = None

MonInit ==
    /\ mon \in { HealthMonitor(r, t) : r \in MonRefSpectra, t \in MonThresholds }
    /\ mon_out = None

\* monitor.score(current)
MonScore ==
    /\ mon_out = None
    /\ \E current \in MonOtherSpectra(ArrLen(mon.signature.reference.omega)) :
         mon_out' = Some([op |-> "score", other |-> current,
                          result |-> HealthMonitor_score(mon, current)])
    /\ UNCHANGED mon

\* monitor.is_anomalous(current)
MonIsAnomalous ==
    /\ mon_out = None
    /\ \E current \in MonOtherSpectra(ArrLen(mon.signature.reference.omega)) :
         mon_out' = Some([op |-> "is_anomalous", other |-> current,
                          threshold |-> mon.threshold,
                          result |-> HealthMonitor_is_anomalous(mon, current)])
    /\ UNCHANGED mon

\* monitor.signature.is_anomalous(other, threshold)
MonSignatureIsAnomalous ==
    /\ mon_out = None
    /\ \E other \in MonOtherSpectra(ArrLen(mon.signature.reference.omega)),
          threshold \in MonThresholds :
         mon_out' = Some([op |-> "signature.is_anomalous", other |-> other,
                          threshold |-> threshold,
                          result |-> Signature_is_anomalous(mon.signature.reference,
                                                            other, threshold)])
    /\ UNCHANGED mon

\* monitor.signature.distance_cosine(other)
MonSignatureDistanceCosine ==
    /\ mon_out = None
    /\ \E other \in MonOtherSpectra(ArrLen(mon.signature.reference.omega)) :
         mon_out' = Some([op |-> "distance_cosine", other |-> other,
                          result |-> distance_cosine(mon.signature.reference, other)])
    /\ UNCHANGED mon

(***************************************************************************)
(* average_spectrum (diagnostics.py).  Frequencies are integers in units   *)
(* of 1e-8 rad/s, so that the tolerances of np.allclose are integers.      *)
(***************************************************************************)
\* np.allclose(a, b) of two arrays of the same length, with the defaults
\* rtol = 1e-5 and atol = 1e-8: |a - b| <= atol + rtol * |b| at every index
\* (the left side is an integer, so the right side may be rounded down)
np_allclose(a, b) ==
    \A i \in DOMAIN a : Abs(a[i] - b[i]) <= 1 + (Abs(b[i]) \div 100000)

GridDiffersError == Raise("ValueError: Spectrum has different frequency grid")

\* The loop `for i, spec in enumerate(spectra)` from the i-th spectrum on
RECURSIVE AverageFrom(_, _, _)
AverageFrom(spectra, i, sum_power) ==
    IF i > Len(spectra) THEN Ok(sum_power)
    ELSE LET spec == spectra[i]
             omega_ref == spectra[1].omega
         IN  IF ArrLen(spec.omega) # ArrLen(omega_ref) \/ ~np_allclose(spec.omega, omega_ref)
             THEN GridDiffersError
             ELSE AverageFrom(spectra, i + 1,
                      [b \in DOMAIN sum_power |-> FracAdd(sum_power[b], spec.power[b])])

\* average_spectrum(spectra), spectra a list (a sequence)
average_spectrum(spectra) ==
    IF Len(spectra) = 0 THEN Raise("ValueError: Cannot average empty list of spectra")
    ELSE LET total == AverageFrom(spectra, 1,
                          [b \in DOMAIN spectra[1].power |-> FracZero])
         IN  IF IsRaise(total) THEN total
             ELSE Ok(Spectrum1D(spectra[1].omega,
                        [b \in DOMAIN total.val |->
                            FracDiv(total.val[b], Frac(Len(spectra), 1))]))

\* The frequency grids of the spectra that are averaged: (1.0), (1.000001),
\* (2.0), (1.0, 2.0) and (1.0, 2.000001), in units of 1e-8
AvgGrids ==
    { ArrayOfSeq(g) : g \in { <<100000000>>, <<100000100>>, <<200000000>>,
                              <<100000000, 200000000>>, <<100000000, 200000100>> } }

AvgPowerVals == {1, 3}

AvgSpectra ==
    UNION { { Spectrum1D(g, IntPower(p)) : p \in [DOMAIN g -> AvgPowerVals] } : g \in AvgGrids }

\* The lists of up to MaxSpectra spectra
AvgLists == UNION { [1..n -> AvgSpectra] : n \in 0..MaxSpectra }

AvgInit == avg_in \in AvgLists /\ avg_out = None

\* avg = average_spectrum(spectra)
AverageSpectrum ==
    /\ avg_out = None
    /\ avg_out' = average_spectrum(avg_in)
    /\ UNCHANGED avg_in

AvgIdle == avg_in = None /\ avg_out = None
(***************************************************************************)
(* build_health_profile (diagnostics.py).  training_data is a dict: the    *)
(* sequence of its (name, spectra) items in insertion order.               *)
(***************************************************************************)
\* The loop over training_data.items() from the i-th item on; signatures
\* is the dict built so far, as (name, reference) items in insertion order
RECURSIVE BuildFrom(_, _, _)
BuildFrom(training_data, i, signatures) ==
    IF i > Len(training_data) THEN Ok([signatures |-> signatures])
    ELSE LET channel_name == training_data[i].name
             spectra_list == training_data[i].spectra
         IN  IF Len(spectra_list) = 0
             THEN BuildFrom(training_data, i + 1, signatures)
             ELSE LET avg_spec == average_spectrum(spectra_list)
                  IN  IF IsRaise(avg_spec) THEN avg_spec
                      ELSE BuildFrom(training_data, i + 1,
                               Append(signatures, [name |-> channel_name,
                                                   reference |-> avg_spec.val]))

\* build_health_profile(training_data)
build_health_profile(training_data) == BuildFrom(training_data, 1, << >>)

\* The training spectra: power 1 and 3 on the grid (1.0), power 1 on the
\* grid (1.000001), and power (1, 1) and (0, 0) on the grid (1.0, 2.0)
BhpSpectra ==
    { Spectrum1D(ArrayOfSeq(<<100000000>>), IntPower(ArrayOfSeq(<<1>>))),
      Spectrum1D(ArrayOfSeq(<<100000000>>), IntPower(ArrayOfSeq(<<3>>))),
      Spectrum1D(ArrayOfSeq(<<100000100>>), IntPower(ArrayOfSeq(<<1>>))),
      Spectrum1D(ArrayOfSeq(<<100000000, 200000000>>), IntPower(ArrayOfSeq(<<1, 1>>))),
      Spectrum1D(ArrayOfSeq(<<100000000, 200000000>>), IntPower(ArrayOfSeq(<<0, 0>>))) }

\* The training lists of a channel: up to MaxSpectra spectra
BhpLists == UNION { [1..n -> BhpSpectra] : n \in 0..MaxSpectra }

BhpChannels == {"a", "b"}

\* The dicts given as training_data: up to two channels, in either order
BhpTrainingData ==
    { td \in UNION { [1..n -> [name : BhpChannels, spectra : BhpLists]] : n \in 0..2 } :
        \A i, j \in DOMAIN td : i # j => td[i].name # td[j].name }

BhpInit == bhp_in \in BhpTrainingData /\ bhp_out = None /\ bhp_score = None

\* profile = build_health_profile(training_data)
BuildHealthProfile ==
    /\ bhp_out = None
    /\ bhp_out' = build_health_profile(bhp_in)
    /\ UNCHANGED <<bhp_in, bhp_score>>

\* scores = profile.score(current), current holding one spectrum for
\* every channel of the training data
BhpScore ==
    /\ bhp_out # None /\ IsOk(bhp_out) /\ bhp_score = None
    /\ \E spec \in BhpSpectra :
         LET current == [c \in { bhp_in[i].name : i \in DOMAIN bhp_in } |-> spec]
         IN  bhp_score' = Some([current |-> current,
                                result |-> HealthProfile_score(bhp_out.val.signatures,
                                                               current)])
    /\ UNCHANGED <<bhp_in, bhp_out>>

BhpIdle == bhp_in = None /\ bhp_out = None /\ bhp_score = None
(***************************************************************************)
(* Spectrum1D of spectrum.py: the class with freqs, amps and phases, whose *)
(* only normalization is normalize_power.  An amplitude is kept by its     *)
(* sign and its square, [sgn, sq]: its power is sq.                        *)
(***************************************************************************)
Amp(a) == [sgn |-> IF a < 0 THEN -1 ELSE IF a = 0 THEN 0 ELSE 1, sq |-> Frac(a * a, 1)]

\* Spectrum1D(freqs, amps): phases default to zeros
Spectrum1D_init(freqs, amps) ==
    [freqs |-> freqs, amps |-> amps, phases |-> [i \in DOMAIN freqs |-> 0]]

\* Spectrum1D.power(): amps ** 2
Spectrum1D_power(self) == [i \in DOMAIN self.amps |-> self.amps[i].sq]

\* Spectrum1D.total_power()
Spectrum1D_total_power(self) == SumFrom(Spectrum1D_power(self), 0)

\* a * scale for scale = sqrt(scale_sq) >= 0
Scaled(a, scale_sq) ==
    [sgn |-> IF scale_sq = FracZero THEN 0 ELSE a.sgn, sq |-> FracMul(a.sq, scale_sq)]

\* Spectrum1D.normalize_power(target): what the call returns or raises
\* (ret) and the object after the call (self)
Spectrum1D_normalize_power(self, target) ==
    LET current_p == Spectrum1D_total_power(self)
    IN  IF current_p = FracZero
        THEN IF target = FracZero
             THEN [ret |-> Ok(None), self |-> self]
             ELSE [ret |-> Raise("ValueError: Cannot normalize zero power spectrum to non-zero target"),
                   self |-> self]
        ELSE LET scale_sq == FracDiv(target, current_p)
             IN  [ret |-> Ok(None),
                  self |-> [self EXCEPT !.amps =
                              [i \in DOMAIN self.amps |-> Scaled(self.amps[i], scale_sq)]]]

\* The amplitudes and targets of the spectra the model normalizes
AmpVals == {-2, -1, 0, 1, 2}
TargetVals == {Frac(0, 1), Frac(1, 1), Frac(2, 1), Frac(4, 1)}
DefaultTarget == Frac(1, 1)

SpInit ==
    /\ \E n \in 1..MaxBins : \E amps \in [0..(n - 1) -> AmpVals] :
          sp_obj = Spectrum1D_init(OmegaGrid(n), [i \in DOMAIN amps |-> Amp(amps[i])])
    /\ sp_out = None

\* r = spec.normalize_power(target): sp_out keeps the object as it was
\* before the call
SpNormalizePower ==
    /\ sp_out = None
    /\ \E target \in TargetVals :
         LET call == Spectrum1D_normalize_power(sp_obj, target)
         IN  /\ sp_obj' = call.self
             /\ sp_out' = Some([before |-> sp_obj, target |-> target, result |-> call.ret])

SpIdle == sp_obj = None /\ sp_out = None
(***************************************************************************)
(* timeseries_to_spectrum (timeseries.py) and SpectralAnalyzer.analyze     *)
(* (diagnostics.py).  Frequencies in Hz are fractions; an angular          *)
(* frequency 2 * pi * f is kept by its f.  The power values of the FFT are *)
(* drawn from FftPowers: the signal itself is kept by its length only.     *)
(***************************************************************************)
\* omega = 2 * np.pi * freq_hz, and freq_hz = omega / (2 * np.pi)
HzToOmega(f) == [two_pi_times |-> f]
OmegaToHz(w) == w.two_pi_times

\* np.fft.rfftfreq(n, d=dt): k / (n * dt) for k = 0 .. n // 2
rfftfreq(n, dt) == [k \in 0..(n \div 2) |-> Frac(k, n * dt)]

\* The arrays np.abs(fft_vals) ** 2 that the FFT of n samples can give:
\* one value per bin
FftPowers(n) == [0..(n \div 2) -> {0, 1}]

\* power[lo:hi] *= 2 for a slice 0 <= lo, hi <= len(power)
DoubleSlice(power, lo, hi) ==
    [k \in DOMAIN power |-> IF lo <= k /\ k < hi THEN FracMul(Frac(2, 1), power[k])
                            ELSE power[k]]

\* power[1:-1] *= 2 whatever n is
DoubledPower_evenRule(n, power) == DoubleSlice(power, 1, ArrLen(power) - 1)

\* power[1:-1] *= 2 for an even n, power[1:] *= 2 for an odd n
DoubledPower(n, power) ==
    IF n % 2 = 0 THEN DoubleSlice(power, 1, ArrLen(power) - 1)
    ELSE DoubleSlice(power, 1, ArrLen(power))

\* timeseries_to_spectrum(signal, dt, window) for a 1-D signal of n
\* samples whose FFT has np.abs(fft_vals) ** 2 = fft_power
timeseries_to_spectrum(n, dt, window, fft_power) ==
    IF n = 0 THEN Raise("ValueError: Signal must not be empty")
    ELSE IF window # Some("hann") /\ window # None
         THEN Raise("ValueError: Unknown window type")
    ELSE LET freq_hz == rfftfreq(n, dt)
             power == [k \in DOMAIN fft_power |-> Frac(fft_power[k], n)]
         IN  Ok(Spectrum1D([k \in DOMAIN freq_hz |-> HzToOmega(freq_hz[k])],
                           DoubledPower(n, power)))

\* The mask with both comparisons strict
FreqMask_open(freq_hz, freq_min, freq_max) ==
    [k \in DOMAIN freq_hz |->
        /\ freq_min # None => FracLess(freq_min.val, freq_hz[k])
        /\ freq_max # None => FracLess(freq_hz[k], freq_max.val)]

\* mask = ones; mask &= (freq_hz >= freq_min); mask &= (freq_hz <= freq_max),
\* each only when the bound is not None
FreqMask(freq_hz, freq_min, freq_max) ==
    [k \in DOMAIN freq_hz |->
        /\ freq_min # None => ~FracLess(freq_hz[k], freq_min.val)
        /\ freq_max # None => ~FracLess(freq_max.val, freq_hz[k])]

\* a[mask] as a sequence, from index k on
RECURSIVE MaskedFrom(_, _, _)
MaskedFrom(a, mask, k) ==
    IF k \notin DOMAIN a THEN << >>
    ELSE (IF mask[k] THEN <<a[k]>> ELSE << >>) \o MaskedFrom(a, mask, k + 1)

\* a[mask]
Masked(a, mask) == ArrayOfSeq(MaskedFrom(a, mask, 0))

\* SpectralAnalyzer(config).analyze(signal)
SpectralAnalyzer_analyze(config, n, fft_power) ==
    LET spectrum == timeseries_to_spectrum(n, config.dt, config.window, fft_power)
    IN  IF IsRaise(spectrum) THEN spectrum
        ELSE IF config.freq_min = None /\ config.freq_max = None THEN spectrum
        ELSE LET freq_hz == [k \in DOMAIN spectrum.val.omega |->
                                OmegaToHz(spectrum.val.omega[k])]
                 mask == FreqMask(freq_hz, config.freq_min, config.freq_max)
             IN  Ok(Spectrum1D(Masked(spectrum.val.omega, mask),
                               Masked(spectrum.val.power, mask)))

\* ChannelConfig(name, dt, window, freq_min, freq_max)
ChannelConfig(name, dt, window, freq_min, freq_max) ==
    [name |-> name, dt |-> dt, window |-> window,
     freq_min |-> freq_min, freq_max |-> freq_max]

\* The configurations: dt of 1 or 2 seconds, the windows "hann", None and
\* an unknown one, and bounds None, 0, 1/4, 1/2 and 1 Hz
FreqBounds == {None} \cup { Some(f) : f \in {Frac(0, 1), Frac(1, 4), Frac(1, 2), Frac(1, 1)} }
WindowArgs == {Some("hann"), None, Some("boxcar")}

AnInit ==
    /\ \E dt \in {1, 2}, window \in WindowArgs, freq_min \in FreqBounds, freq_max \in FreqBounds :
          an_config = ChannelConfig("test", dt, window, freq_min, freq_max)
    /\ an_out = None

\* spectrum = analyzer.analyze(signal): an_out keeps what
\* timeseries_to_spectrum returned for the signal, and the result
AnAnalyze ==
    /\ an_out = None
    /\ \E n \in 0..MaxSignalLen : \E fft_power \in FftPowers(n) :
         an_out' = Some([n |-> n, fft_power |-> fft_power,
                         spectrum |-> timeseries_to_spectrum(n, an_config.dt,
                                                             an_config.window, fft_power),
                         result |-> SpectralAnalyzer_analyze(an_config, n, fft_power)])
    /\ UNCHANGED an_config

AnIdle == an_config = None /\ an_out = None

\* Nothing of diagnostics.py and no spectrum is in use
DiagIdle == MonIdle /\ AvgIdle /\ BhpIdle /\ SpIdle /\ AnIdle

(***************************************************************************)
(* spectral_pressure_difference (grav_toy.py).                             *)
(***************************************************************************)
\* The keyword-only parameters without a default: t_total and dt
Pd_required_keywords == {"t_total", "dt"}

\* Spectrum1D.from_time_signal(t, x) on the arrays recorded in n_steps
\* steps: np.fft.fft refuses an array of no points
Pd_from_time_signal_empty == Raise("ValueError: Invalid number of FFT data points (0)")

\* spectral_pressure_difference(chain, left_range, right_range, **kwargs):
\* the binding of the call to the signature, then the body.  The body
\* reads chain.x in each of the int(t_total / dt) steps of the loop; no
\* class of the package has an attribute x.
spectral_pressure_difference(a_chain, left_range, right_range, kwargs) ==
    IF ~(Pd_required_keywords \subseteq DOMAIN kwargs)
    THEN Raise("TypeError: missing required keyword-only arguments")
    ELSE IF kwargs["dt"] = 0
    THEN Raise("ZeroDivisionError")
    ELSE LET n_steps == kwargs["t_total"] \div kwargs["dt"]
         IN  IF n_steps >= 1
             THEN Raise("AttributeError: x")
             ELSE Pd_from_time_signal_empty

MaxAlphaLen == 3

\* Transparencies in tenths: 0.2 and 0.8
AlphaVals == {2, 8}
PdAlphas == UNION { [0..(n - 1) -> AlphaVals] : n \in 1..MaxAlphaLen }
PdSpectra ==
    UNION { { Spectrum1D(OmegaGrid(n), p) : p \in [0..(n - 1) -> {0, 1}] } : n \in 1..MaxAlphaLen }

\* The keyword arguments of a call: any of t_total and dt
PdKeywordArgs ==
    UNION { [names -> 0..2] : names \in SUBSET Pd_required_keywords }

PdInit ==
    /\ pd_in \in { Some([spectrum |-> sp, alpha_left |-> al, alpha_right |-> ar]) :
                    sp \in PdSpectra, al \in PdAlphas, ar \in PdAlphas }
    /\ pd_out = None

\* spectral_pressure_difference(spectrum, alpha_left, alpha_right, **kwargs)
PdCall ==
    /\ pd_in # None
    /\ \E kwargs \in PdKeywordArgs :
          pd_out' = Some([kwargs |-> kwargs,
                          result |-> spectral_pressure_difference(
                                         pd_in.val.spectrum, pd_in.val.alpha_left,
                                         pd_in.val.alpha_right, kwargs)])
    /\ UNCHANGED pd_in

PdIdle == pd_in = None /\ pd_out = None

(***************************************************************************)
(* Saving and loading .npz archives (io.py).  A string is the sequence of  *)
(* its pieces, so that f"{name}_omega" is name \o <<"_omega">>; an archive  *)
(* is a dict from keys to arrays.                                          *)
(***************************************************************************)
EndsWith(str, suffix) ==
    Len(str) >= Len(suffix) /\ SubSeq(str, Len(str) - Len(suffix) + 1, Len(str)) = suffix

\* np.savez(file, ...): the name of the file written; ".npz" is appended
\* to a file name that does not end with it
savez_file(path) == IF EndsWith(path, <<".npz">>) THEN path ELSE path \o <<".npz">>

\* np.savez(path, **kwds) on the disk fs
np_savez(fs, path, kwds) == DictPut(fs, savez_file(path), kwds)

\* save_spectrum_npz(spectrum, path): the disk after the call
save_spectrum_npz(fs, spectrum, path) ==
    np_savez(fs, path,
             DictPut(DictPut(EmptyDict, <<"omega">>, spectrum.omega), <<"power">>, spectrum.power))

FileNotFoundError == Raise("ValueError: File not found")

\* load_spectrum_npz(path)
load_spectrum_npz(fs, path) ==
    IF path \notin DOMAIN fs THEN FileNotFoundError
    ELSE LET data == fs[path]
         IN  IF <<"omega">> \notin DOMAIN data \/ <<"power">> \notin DOMAIN data
             THEN Raise("ValueError: missing required keys")
             ELSE Ok(Spectrum1D(data[<<"omega">>], data[<<"power">>]))

\* The loop of save_health_profile over profile.signatures.items() from
\* the i-th item on
RECURSIVE SaveFrom(_, _, _, _)
SaveFrom(signatures, i, channel_names, data) ==
    IF i > Len(signatures) THEN [channel_names |-> channel_names, data |-> data]
    ELSE LET name == signatures[i].name
             reference == signatures[i].reference
         IN  SaveFrom(signatures, i + 1, Append(channel_names, name),
                      DictPut(DictPut(data, name \o <<"_omega">>, reference.omega),
                              name \o <<"_power">>, reference.power))

\* save_health_profile(profile, path): the disk after the call, or the
\* TypeError of a keyword given twice in np.savez(path, channels=..., **data)
save_health_profile(fs, signatures, path) ==
    LET built == SaveFrom(signatures, 1, << >>, EmptyDict)
    IN  IF <<"channels">> \in DOMAIN built.data
        THEN Raise("TypeError: multiple values for keyword argument")
        ELSE Ok(np_savez(fs, path, DictPut(built.data, <<"channels">>, built.channel_names)))

\* signatures[name] = signature on a dict kept as items in insertion order
ItemsPut(items, name, reference) ==
    IF \E k \in DOMAIN items : items[k].name = name
    THEN [k \in DOMAIN items |->
              IF items[k].name = name THEN [name |-> name, reference |-> reference]
              ELSE items[k]]
    ELSE Append(items, [name |-> name, reference |-> reference])

\* The loop of load_health_profile over data['channels'] from the i-th on
RECURSIVE LoadFrom(_, _, _)
LoadFrom(data, i, signatures) ==
    LET channels == data[<<"channels">>]
    IN  IF i > Len(channels) THEN Ok(signatures)
        ELSE LET name == channels[i]
                 omega_key == name \o <<"_omega">>
                 power_key == name \o <<"_power">>
             IN  IF omega_key \notin DOMAIN data \/ power_key \notin DOMAIN data
                 THEN Raise("ValueError: Missing data for channel")
                 ELSE LoadFrom(data, i + 1,
                               ItemsPut(signatures, name,
                                        Spectrum1D(data[omega_key], data[power_key])))

\* load_health_profile(path)
load_health_profile(fs, path) ==
    IF path \notin DOMAIN fs THEN FileNotFoundError
    ELSE IF <<"channels">> \notin DOMAIN fs[path]
    THEN Raise("ValueError: not a valid HealthProfile (missing 'channels')")
    ELSE LoadFrom(fs[path], 1, << >>)

MaxChannels == 2

\* The paths given: "ref", "ref.npz" and "out.npz"
IoPaths == { <<"ref">>, <<"ref", ".npz">>, <<"out", ".npz">> }

\* The spectra saved: one bin and two bins
IoSpectra ==
    { Spectrum1D(ArrayOfSeq(<<1>>), ArrayOfSeq(<<1>>)),
      Spectrum1D(ArrayOfSeq(<<1, 2>>), ArrayOfSeq(<<0, 2>>)) }

\* The channel names: "", "a", "_omega", "aa", "a_omega", "_omegaa",
\* "_omega_omega", "channels" and "a_power"
IoChannelNames ==
    UNION { [1..n -> {"a", "_omega"}] : n \in 0..2 } \cup { <<"channels">>, <<"a", "_power">> }

\* The profiles saved: up to MaxChannels channels of distinct names
IoProfiles ==
    { items \in UNION { [1..n -> [name : IoChannelNames, reference : IoSpectra]]
                         : n \in 0..MaxChannels } :
        \A i, j \in DOMAIN items : i # j => items[i].name # items[j].name }

IoInit == io_fs = EmptyDict /\ io_saved = None /\ io_out = None

IoIdle == io_fs = EmptyDict /\ io_saved = None /\ io_out = None

\* save_spectrum_npz(spectrum, path)
IoSaveSpectrum ==
    /\ io_saved = None
    /\ \E spectrum \in IoSpectra, path \in IoPaths :
          /\ io_fs' = save_spectrum_npz(io_fs, spectrum, path)
          /\ io_saved' = Some([kind |-> "spectrum", obj |-> spectrum, path |-> path,
                               ret |-> Ok(None)])
    /\ UNCHANGED io_out

\* save_health_profile(profile, path)
IoSaveProfile ==
    /\ io_saved = None
    /\ \E profile \in IoProfiles, path \in IoPaths :
          LET r == save_health_profile(io_fs, profile, path)
          IN  /\ io_fs' = IF IsOk(r) THEN r.val ELSE io_fs
              /\ io_saved' = Some([kind |-> "profile", obj |-> profile, path |-> path,
                                   ret |-> IF IsOk(r) THEN Ok(None) ELSE r])
    /\ UNCHANGED io_out

\* loaded = load_spectrum_npz(path)
IoLoadSpectrum ==
    /\ io_saved # None
    /\ \E path \in IoPaths :
          io_out' = Some([kind |-> "spectrum", path |-> path,
                          result |-> load_spectrum_npz(io_fs, path)])
    /\ UNCHANGED <<io_fs, io_saved>>

\* loaded = load_health_profile(path)
IoLoadProfile ==
    /\ io_saved # None
    /\ \E path \in IoPaths :
          io_out' = Some([kind |-> "profile", path |-> path,
                          result |-> load_health_profile(io_fs, path)])
    /\ UNCHANGED <<io_fs, io_saved>>

(***************************************************************************)
(* What the scoring operations leave of the objects they are given         *)
(* (material.py, ndt.py): each operator gives the arguments as they are    *)
(* after the call.                                                         *)
(***************************************************************************)
\* distance_l2 whose normalize() rescales the spectrum it is called on
distance_l2_after_inplace(reference, other) ==
    LET ref_normalized == Spectrum_normalize(reference)
        other_normalized == Spectrum_normalize(other)
    IN  IF ~array_equal(reference.omega, other.omega) \/ IsRaise(ref_normalized)
        THEN [reference |-> reference, other |-> other]
        ELSE [reference |-> ref_normalized.val,
              other |-> IF IsRaise(other_normalized) THEN other ELSE other_normalized.val]

\* MaterialSignature.distance_l2(other): normalize() returns new spectra,
\* and diff is a new array
distance_l2_after(reference, other) == [reference |-> reference, other |-> other]

\* The loop of HealthProfile.score and of HealthProfile.is_anomalous over
\* self.signatures.items() from the i-th item on, for the channels in keys
RECURSIVE ScoringAfterFrom(_, _, _, _)
ScoringAfterFrom(signatures, current, keys, i) ==
    IF i > Len(signatures) THEN [signatures |-> signatures, current |-> current]
    ELSE LET name == signatures[i].name
         IN  IF name \in keys
             THEN LET after == distance_l2_after(signatures[i].reference, current[name])
                      signatures_after == [signatures EXCEPT ![i].reference = after.reference]
                      current_after == [current EXCEPT ![name] = after.other]
                  IN  IF IsRaise(distance_l2(signatures[i].reference, current[name]))
                      THEN [signatures |-> signatures_after, current |-> current_after]
                      ELSE ScoringAfterFrom(signatures_after, current_after, keys, i + 1)
             ELSE ScoringAfterFrom(signatures, current, keys, i + 1)

HealthProfile_score_after(signatures, current) ==
    ScoringAfterFrom(signatures, current, DOMAIN current, 1)

HealthProfile_is_anomalous_after(signatures, current, thresholds) ==
    ScoringAfterFrom(signatures, current, DOMAIN current \cap DOMAIN thresholds, 1)

\* extract_features(spectrum, bands): len(bands) band powers and the
\* entropy; the values are kept as the expression they are computed from
extract_features(spectrum, bands) ==
    [shape |-> Len(bands) + 1, features_of |-> <<spectrum, bands>>]

\* FeatureSignature.distance_l2(other_features)
FeatureSignature_distance_l2(reference_features, other_features) ==
    IF other_features.shape # reference_features.shape
    THEN Raise("ValueError: Feature vector shape mismatch")
    ELSE Ok([l2_between |-> <<reference_features, other_features>>])

\* The loop of HealthProfile.score_features from the i-th item on
RECURSIVE FeaturesFrom(_, _, _, _, _)
FeaturesFrom(feature_signatures, current, bands_hz, i, scores) ==
    IF i > Len(feature_signatures) THEN Ok(scores)
    ELSE LET name == feature_signatures[i].name
         IN  IF name \in DOMAIN current /\ name \in DOMAIN bands_hz
             THEN LET feats == extract_features(current[name], bands_hz[name])
                      d == FeatureSignature_distance_l2(
                               feature_signatures[i].reference_features, feats)
                  IN  IF IsRaise(d) THEN d
                      ELSE FeaturesFrom(feature_signatures, current, bands_hz, i + 1,
                                        DictPut(scores, name, d.val))
             ELSE FeaturesFrom(feature_signatures, current, bands_hz, i + 1, scores)

\* HealthProfile.score_features(current, bands_hz)
HealthProfile_score_features(feature_signatures, current, bands_hz) ==
    IF feature_signatures = None THEN Ok(EmptyDict)
    ELSE FeaturesFrom(feature_signatures.val, current, bands_hz, 1, EmptyDict)

\* score_ndt_state: diff and score are new arrays
score_ndt_state_after(profile, ldos_current, epsilon) ==
    [profile |-> profile, ldos_current |-> ldos_current]

MaxScoringCalls == 3

\* Observations on the profiles' grid (1, 2), one of them of zero power,
\* and one on another grid
RsObsSpectra ==
    { Spectrum1D(OmegaGrid(2), IntPower(ArrayOfSeq(<<0, 2>>))),
      Spectrum1D(OmegaGrid(2), IntPower(ArrayOfSeq(<<0, 0>>))),
      Spectrum1D(ShiftedGrid(2), IntPower(ArrayOfSeq(<<1, 1>>))) }
RsCurrentDicts == UNION { [S -> RsObsSpectra] : S \in {{}, {"a"}, {"a", "b"}} }
RsThresholdDicts == { [c \in S |-> t] : S \in {{"a"}, {"a", "b"}}, t \in ThresholdVals }

\* The profiles whose references have power (1, 1) or (0, 0)
RsProfiles ==
    { sigs \in HpProfiles :
        \A i \in DOMAIN sigs : sigs[i].reference.power[0] = sigs[i].reference.power[1] }

\* feature_signatures: None, or reference features of two values for "a"
RsFeatureSignatures(given) ==
    IF given = 0 THEN None
    ELSE Some(<<[name |-> "a",
                 reference_features |-> [shape |-> 2, features_of |-> "healthy"]]>>)

\* bands_hz: one band or two bands for the channel "a"
RsBands == { [c \in {"a"} |-> <<<<0, 1>>>>], [c \in {"a"} |-> <<<<0, 1>>, <<1, 2>>>>] }

\* 1 x 2 NDT profiles with and without deviation, and an LDOS map
RsNdtProfile(std) ==
    NDTProfile(<<0, 1>>, [i \in {0} |-> [j \in 0..1 |-> Frac(1 - j, 1)]],
               [i \in {0} |-> [j \in 0..1 |-> Frac(std * (1 - j), 1)]])
RsLdosCurrent == [i \in {0} |-> [j \in 0..1 |-> Frac(2 - j, 1)]]

\* A profile without feature signatures goes with the NDT profile without
\* deviation, one with feature signatures with the other
RsObjects ==
    { [signatures |-> sigs, feature_signatures |-> RsFeatureSignatures(v),
       current |-> cur, ndt_profile |-> RsNdtProfile(v), ldos_current |-> RsLdosCurrent] :
        sigs \in RsProfiles, cur \in RsCurrentDicts, v \in {0, 1} }

RsInit ==
    /\ rs_made \in { Some(o) : o \in RsObjects }
    /\ rs_objs = rs_made.val
    /\ rs_first = None /\ rs_last = None /\ rs_count = 0

RsIdle ==
    rs_made = None /\ rs_objs = None /\ rs_first = None /\ rs_last = None /\ rs_count = 0

\* The record of a call: the latest, and the first if there was none
RsRecord(call, result) ==
    /\ rs_count < MaxScoringCalls
    /\ rs_count' = rs_count + 1
    /\ rs_last' = Some([call |-> call, result |-> result])
    /\ rs_first' = IF rs_first = None THEN Some([call |-> call, result |-> result]) ELSE rs_first
    /\ UNCHANGED rs_made

\* profile.score(current)
RsScore ==
    /\ rs_made # None
    /\ RsRecord([op |-> "score"], HealthProfile_score(rs_objs.signatures, rs_objs.current))
    /\ LET after == HealthProfile_score_after(rs_objs.signatures, rs_objs.current)
       IN  rs_objs' = [rs_objs EXCEPT !.signatures = after.signatures,
                                      !.current = after.current]

\* profile.is_anomalous(current, thresholds)
RsIsAnomalous ==
    /\ rs_made # None
    /\ \E thresholds \in RsThresholdDicts :
          /\ RsRecord([op |-> "is_anomalous", thresholds |-> thresholds],
                      HealthProfile_is_anomalous(rs_objs.signatures, rs_objs.current, thresholds))
          /\ LET after == HealthProfile_is_anomalous_after(rs_objs.signatures,
                                                          rs_objs.current, thresholds)
             IN  rs_objs' = [rs_objs EXCEPT !.signatures = after.signatures,
                                            !.current = after.current]

\* profile.score_features(current, bands_hz): reads its arguments only
RsScoreFeatures ==
    /\ rs_made # None
    /\ \E bands_hz \in RsBands :
          RsRecord([op |-> "score_features", bands_hz |-> bands_hz],
                   HealthProfile_score_features(rs_objs.feature_signatures,
                                                rs_objs.current, bands_hz))
    /\ UNCHANGED rs_objs

\* profile.signatures[name].distance_l2(current[name])
RsDistanceL2 ==
    /\ rs_made # None
    /\ \E i \in DOMAIN rs_objs.signatures :
          LET name == rs_objs.signatures[i].name
              reference == rs_objs.signatures[i].reference
          IN  /\ name \in DOMAIN rs_objs.current
              /\ RsRecord([op |-> "distance_l2", name |-> name],
                          distance_l2(reference, rs_objs.current[name]))
              /\ LET after == distance_l2_after(reference, rs_objs.current[name])
                 IN  rs_objs' = [rs_objs EXCEPT !.signatures[i].reference = after.reference,
                                                !.current[name] = after.other]

\* profile.signatures[name].distance_cosine(current[name]): reads the two
\* power arrays only
RsDistanceCosine ==
    /\ rs_made # None
    /\ \E i \in DOMAIN rs_objs.signatures :
          LET name == rs_objs.signatures[i].name
          IN  /\ name \in DOMAIN rs_objs.current
              /\ RsRecord([op |-> "distance_cosine", name |-> name],
                          distance_cosine(rs_objs.signatures[i].reference,
                                          rs_objs.current[name]))
    /\ UNCHANGED rs_objs

\* score_ndt_state(profile, ldos_current, epsilon)
RsScoreNdtState ==
    /\ rs_made # None
    /\ \E epsilon \in Epsilons :
          /\ RsRecord([op |-> "score_ndt_state", epsilon |-> epsilon],
                      Ok(score_ndt_state(rs_objs.ndt_profile, rs_objs.ldos_current, epsilon)))
          /\ LET after == score_ndt_state_after(rs_objs.ndt_profile,
                                                rs_objs.ldos_current, epsilon)
             IN  rs_objs' = [rs_objs EXCEPT !.ndt_profile = after.profile,
                                            !.ldos_current = after.ldos_current]

(***************************************************************************)
(* build_ndt_profile with noise (ndt.py): the temporary grids of the       *)
(* samples and the grid the profile is built of.                           *)
(***************************************************************************)
\* The grid given to build_ndt_profile after the loop over the samples:
\* base_mass_map is a copy or a new array, base_mass_map + noise and
\* np.maximum build new arrays, and the grid's fields are only read
Ndt_grid_after(g, noises) == g

\* Grids of 1 or 2 nodes with and without mass_map, kx_map and ky_map
NbGrids ==
    UNION { { NewGrid(sh[1], sh[2], 1, 2, 1, mm, km, km) :
                mm \in {None, Some(FullMap(sh[2], sh[1], 2))},
                km \in {None, Some(FullMap(sh[2], sh[1], 3))} } : sh \in NdtShapes }

NbInit == nb_made \in NbGrids /\ nb_grid = nb_made /\ nb_out = None

NbIdle == nb_made = None /\ nb_grid = None /\ nb_out = None

\* build_ndt_profile(grid, n_modes, freq_window, n_samples, noise_level)
\* with noise_level > 0, for one or two samples
NbBuildProfile ==
    /\ nb_grid # None /\ nb_out = None
    /\ \E n_samples \in 1..2, n_modes \in {0, 1}, freq_window \in {<<0, MaxOmega>>} :
        \E noises \in [1..n_samples -> NoiseMaps(nb_grid)] :
          LET temp_grids == [s \in 1..n_samples |-> Ndt_temp_grid(nb_grid, noises[s])]
          IN  \E first \in Grid_ldos_map(temp_grids[1], n_modes, freq_window),
                 last \in Grid_ldos_map(temp_grids[n_samples], n_modes, freq_window) :
                /\ n_samples = 1 => last = first
                /\ nb_out' =
                      Some([n_samples |-> n_samples, noises |-> noises,
                            temp_grids |-> IF IsRaise(first) THEN <<temp_grids[1]>>
                                           ELSE temp_grids,
                            profile |-> IF IsRaise(first) THEN first
                                        ELSE Ok(Ndt_profile_of(freq_window,
                                                    [s \in 1..n_samples |->
                                                        IF s = 1 THEN first.val ELSE last.val],
                                                    n_samples, 1))])
                /\ nb_grid' = Ndt_grid_after(nb_grid, noises)
    /\ UNCHANGED nb_made

(***************************************************************************)
(* OscillatorGrid2D.ldos_map with what it computes on the way              *)
(* (medium_2d.py): K, the mass matrix, the solver's answer and the map.    *)
(***************************************************************************)
\* The shapes (nx, ny) of the grids, most of them with nx # ny
LmShapes == {<<3, 2>>, <<2, 3>>, <<2, 2>>, <<3, 1>>, <<1, 3>>}

\* A map whose value at [i, j] is base + 10 * i + j: no two cells agree
LmMap(ny, nx, base) == [i \in 0..(ny - 1) |-> [j \in 0..(nx - 1) |-> base + 10 * i + j]]

LmInit ==
    /\ \E sh \in LmShapes, with_mass \in BOOLEAN, with_links \in BOOLEAN :
          lm_grid = NewGrid(sh[1], sh[2], 1, 1, 1,
                            IF with_mass THEN Some(LmMap(sh[2], sh[1], 1)) ELSE None,
                            IF with_links THEN Some(LmMap(sh[2], sh[1], 2)) ELSE None,
                            IF with_links THEN Some(LmMap(sh[2], sh[1], 102)) ELSE None)
    /\ lm_out = None

LmIdle == lm_grid = None /\ lm_out = None

\* ldos = grid.ldos_map(n_modes, freq_window): eigenmodes(n_modes), then
\* ldos_from_modes, then the reshape
LmLdosMap ==
    /\ lm_grid # None /\ lm_out = None
    /\ \E n_modes \in 0..2, freq_window \in {<<0, MaxOmega>>, <<1, 1>>} :
          LET cnt == Grid_eigh_count(lm_grid, Some(n_modes))
          IN  IF cnt < 1
              THEN lm_out' = Some([n_modes |-> n_modes, freq_window |-> freq_window,
                                   result |-> Raise("ValueError")])
              ELSE \E sol \in EighOutputs(lm_grid.nx * lm_grid.ny, cnt) :
                     LET r == Grid_eigenmodes_result(sol)
                         ldos_flat == ldos_from_modes(r.modes, r.omega, freq_window)
                     IN  lm_out' = Some([n_modes |-> n_modes, freq_window |-> freq_window,
                                         K |-> Grid_stiffness_matrix(lm_grid),
                                         M |-> Diag(Grid_m_vec(lm_grid)),
                                         ldos_flat |-> ldos_flat,
                                         result |-> Ok(Reshape(ldos_flat, lm_grid.ny,
                                                               lm_grid.nx))])
    /\ UNCHANGED lm_grid

(***************************************************************************)
(* The train and score commands (cli.py) with load_timeseries_csv (io.py). *)
(* A CSV file is kept by whether it exists and by its numbers of data rows *)
(* and columns.                                                            *)
(***************************************************************************)
\* load_timeseries_csv(path, column): the number of samples of the signal
load_timeseries_csv(file, column) ==
    IF ~file.exists THEN FileNotFoundError
    ELSE IF file.rows = 0 THEN Raise("ValueError: File is empty")
    ELSE IF column >= file.cols \/ column < 0
    THEN Raise("ValueError: Column index is out of range")
    ELSE Ok(file.rows)

\* omega = 2 * pi * f as a float, in units of 1e-8
FloatOmega(w) == (628318531 * OmegaToHz(w).num) \div OmegaToHz(w).den

\* The spectrum of the analyzer with omega as floats
FloatSpectrum(spec) ==
    IF IsRaise(spec) THEN spec
    ELSE Ok(Spectrum1D([k \in DOMAIN spec.val.omega |-> FloatOmega(spec.val.omega[k])],
                       spec.val.power))

\* spec = analyzer.analyze(signal), the FFT giving 1 in every bin
AnalyzeLoaded(ch_config, signal) ==
    IF IsRaise(signal) THEN signal
    ELSE FloatSpectrum(SpectralAnalyzer_analyze(ch_config, signal.val,
                                                [k \in 0..(signal.val \div 2) |-> 1]))

\* signal = load_timeseries_csv(file_path, column=column);
\* spec = analyzer.analyze(signal)
LoadAndAnalyze(ch_config, file, column) ==
    AnalyzeLoaded(ch_config, load_timeseries_csv(file, column))

\* The body of the loop of train_command over the files of a channel:
\* try: load, analyze, append; except Exception: print FAIL
TrainFile(acc, spec) ==
    IF IsRaise(spec)
    THEN [spectra |-> acc.spectra, failed |-> Append(acc.failed, spec.exc)]
    ELSE [spectra |-> Append(acc.spectra, spec.val), failed |-> acc.failed]

\* The loop of train_command over the files of a channel from the i-th on
RECURSIVE TrainFilesFrom(_, _, _, _)
TrainFilesFrom(ch_config, ch_data, i, acc) ==
    IF i > Len(ch_data.files) THEN acc
    ELSE TrainFilesFrom(ch_config, ch_data, i + 1,
             TrainFile(acc, LoadAndAnalyze(ch_config, ch_data.files[i], ch_data.column)))

\* After the files of a channel: training_data[name] = spectra, or a
\* warning when the channel has no valid data
TrainChannel(name, training_data, r) ==
    [training_data |-> IF r.spectra # << >>
                       THEN Append(training_data, [name |-> name, spectra |-> r.spectra])
                       ELSE training_data,
     failed |-> r.failed]

\* The files of one channel, analyzed with the channel's analyzer
TrainChannelFiles(config, ch_data, failed) ==
    TrainFilesFrom(ChannelConfig(ch_data.name, config.dt, config.window, None, None),
                   ch_data, 1, [spectra |-> << >>, failed |-> failed])

\* The loop of train_command over channels_conf.items() from the c-th on
RECURSIVE TrainChannelsFrom(_, _, _)
TrainChannelsFrom(config, c, acc) ==
    IF c > Len(config.channels) THEN acc
    ELSE TrainChannelsFrom(config, c + 1,
             TrainChannel(config.channels[c].name, acc.training_data,
                          TrainChannelFiles(config, config.channels[c], acc.failed)))

\* save_health_profile(profile, args.out) and return 0
TrainSave(saved, fs, failed) ==
    IF IsRaise(saved) THEN [ret |-> saved, fs |-> fs, failed |-> failed]
    ELSE [ret |-> Ok(0), fs |-> saved.val, failed |-> failed]

\* profile = build_health_profile(training_data), then the save
TrainBuild(profile, fs, out, failed) ==
    IF IsRaise(profile) THEN [ret |-> profile, fs |-> fs, failed |-> failed]
    ELSE TrainSave(save_health_profile(fs, profile.val.signatures, out), fs, failed)

\* if not training_data: return 1
TrainFinish(r, fs, out) ==
    IF r.training_data = << >> THEN [ret |-> Ok(1), fs |-> fs, failed |-> r.failed]
    ELSE TrainBuild(build_health_profile(r.training_data), fs, out, r.failed)

\* train_command(args): what it returns or raises, the archives after it
\* and the exceptions it caught
train_command(config, fs, out) ==
    IF config.channels = << >> THEN [ret |-> Ok(1), fs |-> fs, failed |-> << >>]
    ELSE TrainFinish(TrainChannelsFrom(config, 1,
                                       [training_data |-> << >>, failed |-> << >>]),
                     fs, out)

\* The try of score_command: current_spectra[name] = spec, or the error
\* is printed
ScoreFile(acc, name, spec) ==
    IF IsRaise(spec)
    THEN [current_spectra |-> acc.current_spectra, failed |-> Append(acc.failed, spec.exc)]
    ELSE [current_spectra |-> DictPut(acc.current_spectra, name, spec.val),
          failed |-> acc.failed]

\* One channel of score_command: skipped when it is not in the profile or
\* has no files, else its last file is loaded and analyzed
ScoreChannel(config, signatures, ch_data, acc) ==
    IF ~(\E k \in DOMAIN signatures : signatures[k].name = ch_data.name)
       \/ ch_data.files = << >>
    THEN acc
    ELSE ScoreFile(acc, ch_data.name,
             LoadAndAnalyze(ChannelConfig(ch_data.name, config.dt, config.window,
                                          None, None),
                            ch_data.files[Len(ch_data.files)], ch_data.column))

\* The loop of score_command over channels_conf.items() from the c-th on
RECURSIVE ScoreChannelsFrom(_, _, _, _)
ScoreChannelsFrom(config, signatures, c, acc) ==
    IF c > Len(config.channels) THEN acc
    ELSE ScoreChannelsFrom(config, signatures, c + 1,
                           ScoreChannel(config, signatures, config.channels[c], acc))

\* return 1 if any(anomalies.values()) else 0
ScoreReturn(scores, anomalies, failed) ==
    IF IsRaise(scores) THEN [ret |-> scores, failed |-> failed]
    ELSE IF IsRaise(anomalies) THEN [ret |-> anomalies, failed |-> failed]
    ELSE [ret |-> Ok(IF \E name \in DOMAIN anomalies.val : anomalies.val[name]
                     THEN 1 ELSE 0),
          failed |-> failed]

\* if not current_spectra: return 1; then the scores and the anomalies
ScoreFinish(profile, r, thresholds) ==
    IF r.current_spectra = EmptyDict THEN [ret |-> Ok(1), failed |-> r.failed]
    ELSE ScoreReturn(HealthProfile_score(profile, r.current_spectra),
                     HealthProfile_is_anomalous(profile, r.current_spectra, thresholds),
                     r.failed)

\* After load_health_profile: return 2 when it raised
ScoreLoaded(config, profile, thresholds) ==
    IF IsRaise(profile) THEN [ret |-> Ok(2), failed |-> << >>]
    ELSE ScoreFinish(profile.val,
                     ScoreChannelsFrom(config, profile.val, 1,
                                       [current_spectra |-> EmptyDict, failed |-> << >>]),
                     thresholds)

\* score_command(args) without a report file: 2 when the profile does not
\* load, 1 without current data or with an anomaly, else 0; failed holds
\* the exceptions caught in the loop over the channels
score_command(config, fs, path, thresholds) ==
    ScoreLoaded(config, load_health_profile(fs, path), thresholds)

MaxFiles == 2

\* The CSV files: a missing one, one without data rows, one with a single
\* column, and files of two columns with 2 and with 3 rows
CliFiles ==
    { [exists |-> FALSE, rows |-> 0, cols |-> 0], [exists |-> TRUE, rows |-> 0, cols |-> 2],
      [exists |-> TRUE, rows |-> 2, cols |-> 1], [exists |-> TRUE, rows |-> 2, cols |-> 2],
      [exists |-> TRUE, rows |-> 3, cols |-> 2] }

\* The entry of a channel in the configuration
CliChannelData(name) ==
    [name : {name}, column : {0, 1},
     files : UNION { [1..n -> CliFiles] : n \in 0..MaxFiles }]

\* The configurations: no channel, the channel "a", or "a" and "b"
CliConfigs ==
    [dt : {1}, window : {Some("hann"), Some("boxcar")},
     channels : { << >> } \cup { <<a>> : a \in CliChannelData(<<"a">>) }
                \cup { <<a, b>> : a \in CliChannelData(<<"a">>),
                                  b \in { d \in CliChannelData(<<"b">>) :
                                            d.column = 0 /\ Len(d.files) = 1 } }]

\* The path given as --out and as --profile
CliProfilePath == <<"profile", ".npz">>

\* The thresholds file: a threshold for the channel "a" only
CliThresholds == [c \in {<<"a">>} |-> SqrtFrac(FracZero)]

CliInit ==
    /\ cli_config \in CliConfigs
    /\ cli_fs = EmptyDict /\ cli_train = None /\ cli_score = None

CliIdle == cli_config = None /\ cli_fs = EmptyDict /\ cli_train = None /\ cli_score = None

\* spectral-health train --config ... --out profile.npz
CliTrain ==
    /\ cli_config # None /\ cli_train = None
    /\ \E r \in {train_command(cli_config, cli_fs, CliProfilePath)} :
           /\ cli_train' = Some([ret |-> r.ret, failed |-> r.failed])
           /\ cli_fs' = r.fs
    /\ UNCHANGED <<cli_config, cli_score>>

\* spectral-health score --profile profile.npz --config ... --thresholds ...
CliScore ==
    /\ cli_config # None /\ cli_score = None
    /\ cli_score' = Some(score_command(cli_config, cli_fs, CliProfilePath, CliThresholds))
    /\ UNCHANGED <<cli_config, cli_fs, cli_train>>

(***************************************************************************)
(* symmetric_newton (root_finding.py).  f is a callable a*x**2 + b*x + c   *)
(* (terms with coefficient 0 absent) that raises ValueError for x < lo.    *)
(* x and the values of f are exact fractions or inf, -inf, nan; h is kept  *)
(* as num / (10^e10 * 2^e2), and a tolerance 10^k by its exponent k.       *)
(***************************************************************************)
MaxInt32Tenth == 2147483647 \div 10

\* n * 10^e10 * 2^e2 > limit, for n >= 1 and limit >= 0
RECURSIVE GrowsBeyond(_, _, _, _)
GrowsBeyond(n, e10, e2, limit) ==
    IF n > limit THEN TRUE
    ELSE IF e10 > 0 THEN GrowsBeyond(10 * n, e10 - 1, e2, limit)
    ELSE IF e2 > 0 THEN GrowsBeyond(2 * n, e10, e2 - 1, limit)
    ELSE FALSE

\* n / d < 10^k for n >= 0 and d >= 1
RECURSIVE RatioBelowPow10(_, _, _)
RatioBelowPow10(n, d, k) ==
    IF k = 0 THEN n < d
    ELSE IF k < 0 THEN (IF n > MaxInt32Tenth THEN FALSE ELSE RatioBelowPow10(10 * n, d, k + 1))
    ELSE (IF d > MaxInt32Tenth THEN TRUE ELSE RatioBelowPow10(n, 10 * d, k - 1))

\* n / d > 10^k for n >= 0 and d >= 1
RECURSIVE RatioAbovePow10(_, _, _)
RatioAbovePow10(n, d, k) ==
    IF k = 0 THEN n > d
    ELSE IF k < 0 THEN (IF n > MaxInt32Tenth THEN TRUE ELSE RatioAbovePow10(10 * n, d, k + 1))
    ELSE (IF d > MaxInt32Tenth THEN FALSE ELSE RatioAbovePow10(n, 10 * d, k - 1))

\* abs(v) < 10^k: False for nan and for inf
AbsBelowPow10(v, k) == IsFinite(v) /\ RatioBelowPow10(Abs(v.num), v.den, k)

\* abs(v) > 10^k: True for inf, False for nan
AbsAbovePow10(v, k) ==
    IF IsFinite(v) THEN RatioAbovePow10(Abs(v.num), v.den, k) ELSE v # NaN

\* The float h = num / (10^e10 * 2^e2)
HStep(num, e10, e2) == [num |-> num, e10 |-> e10, e2 |-> e2]

\* h = h / 2
HalfStep(h) == [h EXCEPT !.e2 = @ + 1]

\* 2^k, and 1 for k <= 0
RECURSIVE Pow2(_)
Pow2(k) == IF k <= 0 THEN 1 ELSE 2 * Pow2(k - 1)

\* h < 10^(-k), for k >= h.e10
HBelowPow10(h, k) ==
    h.num <= 0 \/ ~GrowsBeyond(h.num, k - h.e10, 0, Pow2(h.e2) - 1)

\* a <= b for two values of the h of one call
HLeq(a, b) == a.e10 = b.e10 /\ a.num * Pow2(b.e2 - a.e2) <= b.num * Pow2(a.e2 - b.e2)

\* sgn * h < d for a fraction d and sgn in {1, -1}
HLessFrac(sgn, h, d) ==
    IF sgn * h.num >= 0 /\ d.num <= 0 THEN FALSE
    ELSE IF sgn * h.num <= 0 /\ d.num >= 0 THEN sgn * h.num < 0 \/ d.num > 0
    ELSE IF d.num > 0 THEN GrowsBeyond(d.num, h.e10, h.e2, sgn * h.num * d.den)
    ELSE ~GrowsBeyond(-d.num, h.e10, h.e2, (-sgn * h.num * d.den) - 1)

\* The callable f
Poly(a, b, c, lo) == [a |-> a, b |-> b, c |-> c, lo |-> lo]

\* The sign of a fraction
FracSign(q) == IF q.num > 0 THEN 1 ELSE IF q.num < 0 THEN -1 ELSE 0

\* f(x) for x = inf or -inf: the sum of the infinite terms
PolyAtInf(f, sx) ==
    LET signs == ({FracSign(f.a)} \cup {sx * FracSign(f.b)}) \ {0}
    IN  IF signs = {} THEN f.c
        ELSE IF signs = {1} THEN PosInf
        ELSE IF signs = {-1} THEN NegInf
        ELSE NaN

\* f(x): the value, or the exception f raises
PolyAt(f, x) ==
    IF x = NaN THEN (IF f.a = FracZero /\ f.b = FracZero THEN Ok(f.c) ELSE Ok(NaN))
    ELSE IF x = PosInf THEN Ok(PolyAtInf(f, 1))
    ELSE IF x = NegInf THEN (IF f.lo # None THEN Raise("ValueError: math domain error")
                             ELSE Ok(PolyAtInf(f, -1)))
    ELSE IF f.lo # None /\ FracLess(x, f.lo.val) THEN Raise("ValueError: math domain error")
    ELSE Ok(FracAdd(FracMul(f.a, FracMul(x, x)), FracAdd(FracMul(f.b, x), f.c)))

\* f(x + sgn * h) raises, for a finite x
RaisesBeside(f, x, sgn, h) == f.lo # None /\ HLessFrac(sgn, h, FracSub(f.lo.val, x))

\* df = (f(x + h) - f(x - h)) / (2 * h), which for a*x**2 + b*x + c is
\* 2*a*x + b whatever h is; h = 0 divides by zero
SymmetricDifference(f, x, h) ==
    IF RaisesBeside(f, x, 1, h) \/ RaisesBeside(f, x, -1, h)
    THEN Raise("ValueError: math domain error")
    ELSE IF h.num = 0 THEN Raise("ZeroDivisionError: float division by zero")
    ELSE Ok(FracAdd(FracMul(FracMul(Frac(2, 1), f.a), x), f.b))

\* What one loop body does: return, raise, or go on with x and h
\* return x, i + 1
NwReturn_countsBody(x, i, why) == [kind |-> "return", x |-> x, n_iter |-> i + 1, why |-> why]
\* return x, i
NwReturn(x, i, why) == [kind |-> "return", x |-> x, n_iter |-> i, why |-> why]
NwRaise(exc) == [kind |-> "raise", exc |-> exc]
NwGoOn(x, h) == [kind |-> "go on", x |-> x, h |-> h]

\* abs(fx_new) > abs(fx) * 2, as abs(fx_new / fx) > 2 for fx # 0
GettingWorse(fx, fx_new) ==
    IF fx.num = 0 THEN fx_new.num # 0
    ELSE FracLess(Frac(2, 1), FracAbs(FracDiv(fx_new, fx)))

\* x = x_new after the backtracking: delta is halved when f(x_new) raises
\* or when abs(fx_new) > abs(fx) * 2
NwBacktrack(x, h, fx, delta, fx_new) ==
    IF IsRaise(fx_new) \/ GettingWorse(fx, fx_new.val)
    THEN NwGoOn(FracSub(x, FracDiv(delta, Frac(2, 1))), h)
    ELSE NwGoOn(FracSub(x, delta), h)

\* x_new = x - delta; fx_new = f(x_new)
NwMove(f, x, h, fx, delta) == NwBacktrack(x, h, fx, delta, PolyAt(f, FracSub(x, delta)))

\* The step is tested against tol_step, then cut to 100 with h halved
NwStep(p, x, h, i, fx, delta) ==
    IF AbsBelowPow10(delta, p.tol_step) THEN NwReturn(x, i, "tol_step")
    ELSE IF FracLess(Frac(100, 1), FracAbs(delta))
    THEN NwMove(p.f, x, HalfStep(h), fx, Frac(100 * FracSign(delta), 1))
    ELSE NwMove(p.f, x, h, fx, delta)

\* h halved on a vanishing derivative, the call given up when h < 1e-15
NwVanishing(x, h, i) ==
    IF HBelowPow10(h, 15) THEN NwReturn(x, i, "h < 1e-15") ELSE NwGoOn(x, h)

\* After the derivative: its failure, a vanishing one, or delta = fx / df
NwDerivative(p, x, h, i, fx, df) ==
    IF IsRaise(df) THEN NwRaise("ValueError: Failed to compute derivative")
    ELSE IF AbsBelowPow10(df.val, -14) THEN NwVanishing(x, HalfStep(h), i)
    ELSE NwStep(p, x, h, i, fx, FracDiv(fx, df.val))

\* After fx = f(x): convergence by value, divergence, then the derivative
NwChecks(p, x, h, i, fx) ==
    IF IsRaise(fx) THEN NwRaise(fx.exc)
    ELSE IF AbsBelowPow10(fx.val, p.tol) THEN NwReturn(x, i, "tol")
    ELSE IF AbsAbovePow10(x, 10) THEN NwRaise("ValueError: Method diverged")
    ELSE NwDerivative(p, x, h, i, fx.val, SymmetricDifference(p.f, x, h))

\* The body of `for i in range(max_iter)`
symmetric_newton_body(p, x, h, i) == NwChecks(p, x, h, i, PolyAt(p.f, x))

MaxIter == 4

\* The callables
NwX5 == Poly(FracZero, FracOne, Frac(-5, 1), None)
NwSquarePlusOne == Poly(FracOne, FracZero, FracOne, None)
NwSquare == Poly(FracOne, FracZero, FracZero, None)
NwSquaresMinusTwelve == Poly(Frac(3, 1), FracZero, Frac(-12, 1), None)
NwOne == Poly(FracZero, FracZero, FracOne, None)
NwShallow == Poly(FracZero, Frac(1, 1000), FracOne, None)
NwShallowFrom150 == Poly(FracZero, Frac(1, 1000), FracOne, Some(Frac(-150, 1)))
NwX5FromZero == Poly(FracZero, FracOne, Frac(-5, 1), Some(FracZero))

NwCall(f, x0, tol, tol_step) == [f |-> f, x0 |-> x0, tol |-> tol, tol_step |-> tol_step]

\* f, x0 and the tolerances 10^tol and 10^tol_step (the defaults are
\* 1e-10 and 1e-12)
NwCalls ==
    { NwCall(NwX5, Frac(5, 1), -10, -12), NwCall(NwX5, FracZero, -10, -12),
      NwCall(NwX5, PosInf, -10, -12), NwCall(NwSquarePlusOne, FracOne, -10, -12),
      NwCall(NwOne, FracZero, -10, -12), NwCall(NwOne, PosInf, -10, -12),
      NwCall(NwShallow, FracZero, -10, -12), NwCall(NwShallowFrom150, FracZero, -10, -12),
      NwCall(NwX5FromZero, Frac(-1, 1), -10, -12), NwCall(NwX5FromZero, Frac(1, 1), -10, -12),
      NwCall(NwSquare, FracOne, -10, -12), NwCall(NwSquare, FracOne, -10, -1),
      NwCall(NwSquare, FracOne, -1, -12), NwCall(NwSquaresMinusTwelve, Frac(1, 4), 1, -12) }

\* h0: the default 1e-3, 1e-15, 0 and -1e-3
NwSteps == { HStep(1, 3, 0), HStep(1, 15, 0), HStep(0, 3, 0), HStep(-1, 3, 0) }

NwInit ==
    /\ \E c \in NwCalls, h0 \in NwSteps, max_iter \in -1..MaxIter :
           /\ nw_in = Some([f |-> c.f, x0 |-> c.x0, h0 |-> h0, max_iter |-> max_iter,
                            tol |-> c.tol, tol_step |-> c.tol_step])
           /\ nw_x = c.x0 /\ nw_h = h0 /\ nw_hs = <<h0>>
    /\ nw_i = 0 /\ nw_out = None

NwIdle ==
    /\ nw_in = None /\ nw_x = None /\ nw_h = None /\ nw_hs = << >>
    /\ nw_i = 0 /\ nw_out = None

\* One body of the loop
NwIterate ==
    /\ nw_in # None /\ nw_out = None /\ nw_i < nw_in.val.max_iter
    /\ \E r \in {symmetric_newton_body(nw_in.val, nw_x, nw_h, nw_i)} :
           /\ nw_out' = IF r.kind = "return"
                        THEN Ok([x_root |-> r.x, n_iter |-> r.n_iter, why |-> r.why])
                        ELSE IF r.kind = "raise" THEN Raise(r.exc) ELSE None
           /\ nw_x' = IF r.kind = "go on" THEN r.x ELSE nw_x
           /\ nw_h' = IF r.kind = "go on" THEN r.h ELSE nw_h
           /\ nw_hs' = IF r.kind = "go on" /\ r.h # nw_h THEN Append(nw_hs, r.h) ELSE nw_hs
    /\ nw_i' = nw_i + 1
    /\ UNCHANGED nw_in

\* The loop is over: return x, max_iter
NwExhausted ==
    /\ nw_in # None /\ nw_out = None /\ nw_i >= nw_in.val.max_iter
    /\ nw_out' = Ok([x_root |-> nw_x, n_iter |-> nw_in.val.max_iter, why |-> "max_iter"])
    /\ UNCHANGED <<nw_in, nw_x, nw_h, nw_i, nw_hs>>

\* No operation of grav_toy.py or io.py, no scoring session and no build is in use
ExtIdle == PdIdle /\ IoIdle /\ RsIdle /\ NbIdle /\ LmIdle /\ CliIdle /\ NwIdle

(***************************************************************************)
(* Specifications.                                                         *)
(***************************************************************************)
GridNext == GridStiffnessMatrix /\ UNCHANGED <<chainVars, eigVars, ldosVars, sigVars, hpVars, ndtVars, diagVars, extVars>>

InitGrid == GridInit /\ ChainIdle /\ EigIdle /\ LdosIdle /\ SigIdle /\ HpIdle /\ NdtIdle /\ DiagIdle /\ ExtIdle

SpecGrid == InitGrid /\ [][GridNext]_vars

GridNewNext ==
    \/ GridConstruct /\ UNCHANGED <<chainVars, eigVars, ldosVars, sigVars, hpVars, ndtVars, diagVars, extVars>>
    \/ GridConstructedStiffnessMatrix
          /\ UNCHANGED <<chainVars, eigVars, ldosVars, sigVars, hpVars, ndtVars, diagVars, extVars>>

InitGridNew == GridIdle /\ ChainIdle /\ EigIdle /\ LdosIdle /\ SigIdle /\ HpIdle /\ NdtIdle /\ DiagIdle /\ ExtIdle

SpecGridNew == InitGridNew /\ [][GridNewNext]_vars

ChainNext ==
    \/ ChainConstruct /\ UNCHANGED <<gridVars, eigVars, ldosVars, sigVars, hpVars, ndtVars, diagVars, extVars>>
    \/ ChainStiffnessMatrix /\ UNCHANGED <<gridVars, eigVars, ldosVars, sigVars, hpVars, ndtVars, diagVars, extVars>>

InitChain == ChainIdle /\ GridIdle /\ EigIdle /\ LdosIdle /\ SigIdle /\ HpIdle /\ NdtIdle /\ DiagIdle /\ ExtIdle

SpecChain == InitChain /\ [][ChainNext]_vars

EigNext ==
    \/ ChainEigenmodes /\ UNCHANGED <<ldosVars, sigVars, hpVars, ndtVars, diagVars, extVars>>
    \/ GridEigenmodes /\ UNCHANGED <<ldosVars, sigVars, hpVars, ndtVars, diagVars, extVars>>

InitEig ==
    /\ (EigChainInit /\ GridIdle) \/ (EigGridInit /\ ChainIdle)
    /\ EigIdle /\ LdosIdle /\ SigIdle /\ HpIdle /\ NdtIdle /\ DiagIdle /\ ExtIdle

SpecEig == InitEig /\ [][EigNext]_vars

LdosNext == LdosFromModes /\ UNCHANGED <<gridVars, chainVars, eigVars, sigVars, hpVars, ndtVars, diagVars, extVars>>

InitLdos == LdosInit /\ GridIdle /\ ChainIdle /\ EigIdle /\ SigIdle /\ HpIdle /\ NdtIdle /\ DiagIdle /\ ExtIdle

SpecLdos == InitLdos /\ [][LdosNext]_vars

SigNext ==
    SigDistanceL2 /\ UNCHANGED <<gridVars, chainVars, eigVars, ldosVars, hpVars, ndtVars, diagVars, extVars>>

InitSig == SigInit /\ GridIdle /\ ChainIdle /\ EigIdle /\ LdosIdle /\ HpIdle /\ NdtIdle /\ DiagIdle /\ ExtIdle

SpecSig == InitSig /\ [][SigNext]_vars

HpNext ==
    \/ HpScore /\ UNCHANGED <<gridVars, chainVars, eigVars, ldosVars, sigVars, ndtVars, diagVars, extVars>>
    \/ HpIsAnomalous /\ UNCHANGED <<gridVars, chainVars, eigVars, ldosVars, sigVars, ndtVars, diagVars, extVars>>
    \/ HpSignatureDistanceL2 /\ UNCHANGED <<gridVars, chainVars, eigVars, ldosVars, sigVars, ndtVars, diagVars, extVars>>
    \/ HpSignatureDistanceCosine /\ UNCHANGED <<gridVars, chainVars, eigVars, ldosVars, sigVars, ndtVars, diagVars, extVars>>
    \/ HpSignatureIsAnomalous /\ UNCHANGED <<gridVars, chainVars, eigVars, ldosVars, sigVars, ndtVars, diagVars, extVars>>

InitHp == HpInit /\ GridIdle /\ ChainIdle /\ EigIdle /\ LdosIdle /\ SigIdle /\ NdtIdle /\ DiagIdle /\ ExtIdle

SpecHp == InitHp /\ [][HpNext]_vars

NdtNext ==
    \/ NdtLdosMap /\ UNCHANGED <<gridVars, chainVars, eigVars, ldosVars, sigVars, hpVars, diagVars, extVars>>
    \/ NdtBuildProfile /\ UNCHANGED <<gridVars, chainVars, eigVars, ldosVars, sigVars, hpVars, diagVars, extVars>>
    \/ NdtScore /\ UNCHANGED <<gridVars, chainVars, eigVars, ldosVars, sigVars, hpVars, diagVars, extVars>>
    \/ NdtDefectMask /\ UNCHANGED <<gridVars, chainVars, eigVars, ldosVars, sigVars, hpVars, diagVars, extVars>>

InitNdt ==
    /\ NdtGridInit \/ NdtProfileInit
    /\ GridIdle /\ ChainIdle /\ EigIdle /\ LdosIdle /\ SigIdle /\ HpIdle /\ DiagIdle /\ ExtIdle

SpecNdt == InitNdt /\ [][NdtNext]_vars

(***************************************************************************)
(* Claims about OscillatorGrid2D.stiffness_matrix().                       *)
(***************************************************************************)
\* K is an n x n array
MonNext ==
    \/ MonScore /\ UNCHANGED <<coreVars, avgVars, bhpVars, spVars, anVars, extVars>>
    \/ MonIsAnomalous /\ UNCHANGED <<coreVars, avgVars, bhpVars, spVars, anVars, extVars>>
    \/ MonSignatureIsAnomalous /\ UNCHANGED <<coreVars, avgVars, bhpVars, spVars, anVars, extVars>>
    \/ MonSignatureDistanceCosine /\ UNCHANGED <<coreVars, avgVars, bhpVars, spVars, anVars, extVars>>

CoreIdle == GridIdle /\ ChainIdle /\ EigIdle /\ LdosIdle /\ SigIdle /\ HpIdle /\ NdtIdle

InitMon == MonInit /\ CoreIdle /\ AvgIdle /\ BhpIdle /\ SpIdle /\ AnIdle /\ ExtIdle

SpecMon == InitMon /\ [][MonNext]_vars

AvgNext == AverageSpectrum /\ UNCHANGED <<coreVars, monVars, bhpVars, spVars, anVars, extVars>>

InitAvg == AvgInit /\ CoreIdle /\ MonIdle /\ BhpIdle /\ SpIdle /\ AnIdle /\ ExtIdle

SpecAvg == InitAvg /\ [][AvgNext]_vars

BhpNext ==
    \/ BuildHealthProfile /\ UNCHANGED <<coreVars, monVars, avgVars, spVars, anVars, extVars>>
    \/ BhpScore /\ UNCHANGED <<coreVars, monVars, avgVars, spVars, anVars, extVars>>

InitBhp == BhpInit /\ CoreIdle /\ MonIdle /\ AvgIdle /\ SpIdle /\ AnIdle /\ ExtIdle

SpecBhp == InitBhp /\ [][BhpNext]_vars

SpNext == SpNormalizePower /\ UNCHANGED <<coreVars, monVars, avgVars, bhpVars, anVars, extVars>>

InitSp == SpInit /\ CoreIdle /\ MonIdle /\ AvgIdle /\ BhpIdle /\ AnIdle /\ ExtIdle

SpecSp == InitSp /\ [][SpNext]_vars

AnNext == AnAnalyze /\ UNCHANGED <<coreVars, monVars, avgVars, bhpVars, spVars, extVars>>

InitAn == AnInit /\ CoreIdle /\ MonIdle /\ AvgIdle /\ BhpIdle /\ SpIdle /\ ExtIdle

SpecAn == InitAn /\ [][AnNext]_vars

\* spectral_pressure_difference called on a spectrum and two transparencies
PdNext == PdCall /\ UNCHANGED <<coreVars, diagVars, ioVars, rsVars, nbVars, lmVars, cliVars, nwVars>>
InitPd == PdInit /\ CoreIdle /\ DiagIdle /\ IoIdle /\ RsIdle /\ NbIdle /\ LmIdle /\ CliIdle /\ NwIdle
SpecPd == InitPd /\ [][PdNext]_vars

\* Spectra and profiles saved to and loaded from .npz archives
IoNext ==
    \/ IoSaveSpectrum /\ UNCHANGED <<coreVars, diagVars, pdVars, rsVars, nbVars, lmVars, cliVars, nwVars>>
    \/ IoSaveProfile /\ UNCHANGED <<coreVars, diagVars, pdVars, rsVars, nbVars, lmVars, cliVars, nwVars>>
    \/ IoLoadSpectrum /\ UNCHANGED <<coreVars, diagVars, pdVars, rsVars, nbVars, lmVars, cliVars, nwVars>>
    \/ IoLoadProfile /\ UNCHANGED <<coreVars, diagVars, pdVars, rsVars, nbVars, lmVars, cliVars, nwVars>>
InitIo == IoInit /\ CoreIdle /\ DiagIdle /\ PdIdle /\ RsIdle /\ NbIdle /\ LmIdle /\ CliIdle /\ NwIdle
SpecIo == InitIo /\ [][IoNext]_vars

\* Scoring calls in any order on one profile and one observation
RsNext ==
    \/ RsScore /\ UNCHANGED <<coreVars, diagVars, pdVars, ioVars, nbVars, lmVars, cliVars, nwVars>>
    \/ RsIsAnomalous /\ UNCHANGED <<coreVars, diagVars, pdVars, ioVars, nbVars, lmVars, cliVars, nwVars>>
    \/ RsScoreFeatures /\ UNCHANGED <<coreVars, diagVars, pdVars, ioVars, nbVars, lmVars, cliVars, nwVars>>
    \/ RsDistanceL2 /\ UNCHANGED <<coreVars, diagVars, pdVars, ioVars, nbVars, lmVars, cliVars, nwVars>>
    \/ RsDistanceCosine /\ UNCHANGED <<coreVars, diagVars, pdVars, ioVars, nbVars, lmVars, cliVars, nwVars>>
    \/ RsScoreNdtState /\ UNCHANGED <<coreVars, diagVars, pdVars, ioVars, nbVars, lmVars, cliVars, nwVars>>
InitRs == RsInit /\ CoreIdle /\ DiagIdle /\ PdIdle /\ IoIdle /\ NbIdle /\ LmIdle /\ CliIdle /\ NwIdle
SpecRs == InitRs /\ [][RsNext]_vars

\* An NDT profile built with noise of one grid
NbNext == NbBuildProfile /\ UNCHANGED <<coreVars, diagVars, pdVars, ioVars, rsVars, lmVars, cliVars, nwVars>>
InitNb == NbInit /\ CoreIdle /\ DiagIdle /\ PdIdle /\ IoIdle /\ RsIdle /\ LmIdle /\ CliIdle /\ NwIdle
SpecNb == InitNb /\ [][NbNext]_vars

\* The LDOS map of a grid
LmNext == LmLdosMap /\ UNCHANGED <<coreVars, diagVars, pdVars, ioVars, rsVars, nbVars, cliVars, nwVars>>
InitLm == LmInit /\ CoreIdle /\ DiagIdle /\ PdIdle /\ IoIdle /\ RsIdle /\ NbIdle /\ CliIdle /\ NwIdle
SpecLm == InitLm /\ [][LmNext]_vars

\* The train and score commands on one configuration
CliNext ==
    \/ CliTrain /\ UNCHANGED <<coreVars, diagVars, pdVars, ioVars, rsVars, nbVars, lmVars, nwVars>>
    \/ CliScore /\ UNCHANGED <<coreVars, diagVars, pdVars, ioVars, rsVars, nbVars, lmVars, nwVars>>
InitCli == CliInit /\ CoreIdle /\ DiagIdle /\ PdIdle /\ IoIdle /\ RsIdle /\ NbIdle /\ LmIdle /\ NwIdle
SpecCli == InitCli /\ [][CliNext]_vars

\* One call of symmetric_newton, one loop body at a time
NwNext ==
    \/ NwIterate /\ UNCHANGED <<coreVars, diagVars, pdVars, ioVars, rsVars, nbVars, lmVars, cliVars>>
    \/ NwExhausted /\ UNCHANGED <<coreVars, diagVars, pdVars, ioVars, rsVars, nbVars, lmVars, cliVars>>
InitNw == NwInit /\ CoreIdle /\ DiagIdle /\ PdIdle /\ IoIdle /\ RsIdle /\ NbIdle /\ LmIdle /\ CliIdle
SpecNw == InitNw /\ [][NwNext]_vars

IsSquare(K, n) ==
    /\ DOMAIN K = 0..(n - 1)
    /\ \A a \in 0..(n - 1) : DOMAIN K[a] = 0..(n - 1)

IsSymmetric(K, n) == \A a, b \in 0..(n - 1) : K[a][b] = K[b][a]

\* The stiffness of the horizontal link that leaves node (i, j) to the
\* right, for j = -1 (the left wall's link) up to nx - 1 (the right wall's)
HorizLink(g, i, j) ==
    IF j = -1 \/ j = g.nx - 1 THEN g.kx
    ELSE IF g.kx_map = None THEN g.kx ELSE g.kx_map.val[i][j]

\* The stiffness of the vertical link that leaves node (i, j) downwards,
\* for i = -1 (the upper wall's link) up to ny - 1 (the lower wall's)
VertLink(g, i, j) ==
    IF i = -1 \/ i = g.ny - 1 THEN g.ky
    ELSE IF g.ky_map = None THEN g.ky ELSE g.ky_map.val[i][j]

FourLinks(g, i, j) ==
    HorizLink(g, i, j - 1) + HorizLink(g, i, j)
        + VertLink(g, i - 1, j) + VertLink(g, i, j)

\* Every internal link has the scalar default stiffness
IsUniformGrid(g) ==
    /\ g.kx_map # None =>
          \A i \in 0..(g.ny - 1), j \in 0..(g.nx - 2) : g.kx_map.val[i][j] = g.kx
    /\ g.ky_map # None =>
          \A i \in 0..(g.ny - 2), j \in 0..(g.nx - 1) : g.ky_map.val[i][j] = g.ky

\* C1: for every grid with nx, ny >= 1 and maps of shape (ny, nx),
\* stiffness_matrix() returns an (nx*ny) x (nx*ny) symmetric matrix whose
\* diagonal entry of node (i, j) is the sum of the node's four link
\* stiffnesses (left, right, up, down), a wall link standing in where the
\* neighbour is missing; on a uniform grid every diagonal entry is
\* 2*kx + 2*ky, corners and grids with nx = 1 or ny = 1 included.
C1_GridStiffnessSymmetricFourLinks ==
    IsOk(grid_K) =>
        LET K == grid_K.val
            n == grid.nx * grid.ny
        IN  /\ IsSquare(K, n)
            /\ IsSymmetric(K, n)
            /\ \A i \in 0..(grid.ny - 1), j \in 0..(grid.nx - 1) :
                  /\ K[i * grid.nx + j][i * grid.nx + j] = FourLinks(grid, i, j)
                  /\ IsUniformGrid(grid) =>
                        K[i * grid.nx + j][i * grid.nx + j]
                            = 2 * grid.kx + 2 * grid.ky

\* The matrix of a 3 x 3 grid (corners, edges and an inner node) whose two
\* maps both carry a defect on an internal link has been assembled
C1_Witness ==
    /\ IsOk(grid_K)
    /\ grid.nx = 3 /\ grid.ny = 3
    /\ grid.kx_map # None /\ grid.ky_map # None
    /\ grid.kx_map.val[1][0] # grid.kx_map.val[1][1]
    /\ grid.ky_map.val[0][1] # grid.ky_map.val[1][1]

(***************************************************************************)
(* Claims about OscillatorChain1D.stiffness_matrix().                      *)
(***************************************************************************)
\* k is a scalar or a per-edge array of length n - 1
IsScalarOrPerEdge(c) == c.k.kind = "scalar" \/ ArrLen(c.k.val) = c.n - 1

\* The spring between nodes i and i + 1
SpringBetween(c, i) == IF c.k.kind = "scalar" THEN ScalarVal(c.k) ELSE c.k.val[i]

\* The spring to the left of node i: the left wall spring for node 0
SpringLeftOf(c, i) ==
    IF c.k.kind = "scalar" THEN ScalarVal(c.k)
    ELSE IF i = 0 THEN c.k.val[0] ELSE c.k.val[i - 1]

\* The spring to the right of node i: the right wall spring for node n - 1
SpringRightOf(c, i) ==
    IF c.k.kind = "scalar" THEN ScalarVal(c.k)
    ELSE IF i = c.n - 1 THEN c.k.val[c.n - 2] ELSE c.k.val[i]

IsChainStiffness(K, c) ==
    /\ IsSquare(K, c.n)
    /\ IsSymmetric(K, c.n)
    /\ \A i \in 0..(c.n - 1) : K[i][i] = SpringLeftOf(c, i) + SpringRightOf(c, i)
    /\ \A i \in 0..(c.n - 2) :
          K[i][i + 1] = -SpringBetween(c, i) /\ K[i + 1][i] = -SpringBetween(c, i)
    /\ \A i, j \in 0..(c.n - 1) : (i - j > 1 \/ j - i > 1) => K[i][j] = 0

\* C2: for every chain the constructor accepts, with n >= 1 and k a scalar
\* or a per-edge array of length n - 1, stiffness_matrix() returns an n x n
\* symmetric tridiagonal matrix: diagonal entry i is the spring to the left
\* plus the spring to the right of node i (walls: k[0] and k[n-2] for an
\* array, k for a scalar), entries (i, i+1) and (i+1, i) are minus the
\* spring between nodes i and i + 1, every other entry is 0.
C2_ChainStiffnessTridiagonal ==
    (chain # None /\ chain_K # None /\ IsScalarOrPerEdge(chain.val)) =>
        /\ IsOk(chain_K)
        /\ IsChainStiffness(chain_K.val, chain.val)

(***************************************************************************)
(* Claims about eigenmodes().                                              *)
(***************************************************************************)
\* C3: every frequency eigenmodes() of a chain or grid returns is >= 0 and
\* the frequency array is non-decreasing, also when the solver yields
\* negative eigenvalues: the frequency of a negative eigenvalue is 0, that
\* of any other its square root, in the solver's (ascending) order.
C3_FrequenciesNonNegativeAscending ==
    IsOk(modes_out) =>
        LET omega == modes_out.val.omega
            eigvals == eigh_out.val.eigvals
        IN  /\ DOMAIN omega = DOMAIN eigvals
            /\ \A i \in DOMAIN omega : omega[i] >= 0
            /\ IsAscending(omega)
            /\ \A i \in DOMAIN omega :
                  /\ eigvals[i] < 0 => omega[i] = 0
                  /\ eigvals[i] >= 0 => omega[i] * omega[i] = eigvals[i]

\* Frequencies were returned for a solver output that holds a negative
\* eigenvalue followed by a positive one
C3_Witness ==
    /\ IsOk(modes_out)
    /\ \E i, j \in DOMAIN eigh_out.val.eigvals :
          i < j /\ eigh_out.val.eigvals[i] < 0 /\ eigh_out.val.eigvals[j] > 0

(***************************************************************************)
(* Claims about ldos_from_modes.                                           *)
(***************************************************************************)
\* The columns whose frequency lies in the closed window
ColumnsInWindow(omegas, w_min, w_max) ==
    { i \in DOMAIN omegas : w_min <= omegas[i] /\ omegas[i] <= w_max }

\* The sum of row[i]^2 over the columns i of cols
RECURSIVE SumOfSquares(_, _)
SumOfSquares(row, cols) ==
    IF cols = {} THEN 0
    ELSE LET i == CHOOSE x \in cols : TRUE
         IN  row[i] * row[i] + SumOfSquares(row, cols \ {i})

\* C5: ldos_from_modes(modes, omegas, (w_min, w_max)) returns for each
\* spatial row p the sum of modes[p, i]^2 over exactly the columns i with
\* w_min <= omegas[i] <= w_max (both ends included); it is the zero vector
\* of length N_points when no frequency lies in the window and the sum
\* over all columns when every frequency does.
C5_LdosSumsSquaresInClosedWindow ==
    IsOk(ldos_out) =>
        LET a == ldos_in.val
            r == ldos_out.val
            cols == ColumnsInWindow(a.omegas, a.freq_window[1], a.freq_window[2])
        IN  /\ DOMAIN r = DOMAIN a.modes
            /\ \A p \in DOMAIN r : r[p] = SumOfSquares(a.modes[p], cols)
            /\ cols = {} => \A p \in DOMAIN r : r[p] = 0
            /\ cols = DOMAIN a.omegas =>
                  \A p \in DOMAIN r : r[p] = SumOfSquares(a.modes[p], DOMAIN a.omegas)

\* A window whose two ends are frequencies of modes with non-zero
\* amplitude, one mode inside it and one outside
C5_Witness ==
    /\ IsOk(ldos_out)
    /\ LET a == ldos_in.val
       IN  /\ a.freq_window = <<2, 2>>
           /\ \E i, j \in DOMAIN a.omegas :
                 /\ a.omegas[i] = 2 /\ a.omegas[j] = 1
                 /\ a.modes[0][i] # 0 /\ a.modes[0][j] # 0
           /\ ldos_out.val[0] > 0

(***************************************************************************)
(* Claims about MaterialSignature and HealthProfile.                       *)
(***************************************************************************)
ZeroDistance == SqrtFrac(Frac(0, 1))

\* t2 is t1 with its power vector multiplied by one of the factors c > 0
IsRescalingOf(t2, t1) ==
    /\ t2.omega = t1.omega
    /\ \E c \in ScaleFactors :
         t2.power = [i \in DOMAIN t1.power |-> FracMul(c, t1.power[i])]

Scorable(reference, other) ==
    /\ reference.omega = other.omega
    /\ Spectrum_total_power(reference) # Frac(0, 1)
    /\ Spectrum_total_power(other) # Frac(0, 1)

\* The positions in the profile of the channels a profile call scores
ScoredChannels(o) ==
    { i \in DOMAIN hp_signatures :
        /\ hp_signatures[i].name \in DOMAIN o.current
        /\ o.op = "is_anomalous" => hp_signatures[i].name \in DOMAIN o.thresholds }

IsSignatureCall(o) == o.op \in {"distance_l2", "distance_cosine", "signature.is_anomalous"}
IsProfileCall(o) == o.op \in {"score", "is_anomalous"}

\* C7: distance_l2, distance_cosine and is_anomalous of a signature raise
\* the grid-mismatch ValueError whenever the other spectrum's omega is not
\* exactly the reference's, also when a spectrum has zero total power (the
\* grids are compared before anything is normalized); HealthProfile.score
\* and is_anomalous then raise as well and return no mapping, the error
\* being the grid mismatch when every channel scored before is fine.
C7_GridMismatchRaisedFirst ==
    hp_out # None =>
        LET o == hp_out.val
        IN  /\ (IsSignatureCall(o) /\ o.reference.omega # o.other.omega) =>
                  o.result = GridMismatchError
            /\ IsProfileCall(o) =>
                  \A i \in ScoredChannels(o) :
                      hp_signatures[i].reference.omega
                          # o.current[hp_signatures[i].name].omega =>
                        /\ IsRaise(o.result)
                        /\ (\A j \in ScoredChannels(o) :
                              j < i => Scorable(hp_signatures[j].reference,
                                                o.current[hp_signatures[j].name]))
                             => o.result = GridMismatchError

\* A profile of two channels scored on a current whose first channel is
\* fine and whose second one has another grid and no power
C7_Witness ==
    /\ hp_out # None /\ hp_out.val.op = "score"
    /\ Len(hp_signatures) = 2
    /\ LET o == hp_out.val
           n1 == hp_signatures[1].name
           n2 == hp_signatures[2].name
       IN  /\ {n1, n2} \subseteq DOMAIN o.current
           /\ Scorable(hp_signatures[1].reference, o.current[n1])
           /\ hp_signatures[2].reference.omega # o.current[n2].omega
           /\ Spectrum_total_power(o.current[n2]) = Frac(0, 1)
           /\ o.result = GridMismatchError

ProfileNames == { hp_signatures[i].name : i \in DOMAIN hp_signatures }

\* C8: HealthProfile.score(current) returns a mapping whose keys are
\* exactly the channels in both the profile and current, and
\* is_anomalous(current, thresholds) one whose keys are exactly the
\* channels in the profile, in current and in thresholds; a channel
\* missing from current or thresholds causes no error (a call fails only
\* when a channel it scores cannot be scored), and a channel of current
\* that the profile does not have never appears.
C8_ProfileResultKeys ==
    (hp_out # None /\ IsProfileCall(hp_out.val)) =>
        LET o == hp_out.val
            keys == { hp_signatures[i].name : i \in ScoredChannels(o) }
        IN  /\ keys = IF o.op = "score"
                       THEN ProfileNames \cap DOMAIN o.current
                       ELSE ProfileNames \cap DOMAIN o.current \cap DOMAIN o.thresholds
            /\ IsOk(o.result) => DOMAIN o.result.val = keys
            /\ IsRaise(o.result) =>
                  \E i \in ScoredChannels(o) :
                      ~Scorable(hp_signatures[i].reference,
                                o.current[hp_signatures[i].name])

\* is_anomalous on a profile of two channels with a current that has
\* both and a foreign channel, and thresholds that miss one of the two
C8_Witness ==
    /\ hp_out # None /\ hp_out.val.op = "is_anomalous"
    /\ LET o == hp_out.val
       IN  /\ IsOk(o.result)
           /\ ProfileNames = {"a", "b"}
           /\ DOMAIN o.current = {"a", "b", "x"}
           /\ DOMAIN o.thresholds = {"a", "x"}
           /\ DOMAIN o.result.val = {"a"}

(***************************************************************************)
(* Claims about the NDT profile and its scores.                            *)
(***************************************************************************)
AllCells(a, v) == \A i \in DOMAIN a : \A j \in DOMAIN a[i] : a[i][j] = v

\* C9: score_ndt_state(profile, ldos_current, epsilon) is 0 at every cell
\* whenever ldos_current equals profile.ldos_mean, whatever ldos_std is
\* (all zero, partly zero or all positive) and for every epsilon > 0.
C9_ScoreZeroWhenCurrentEqualsMean ==
    (/\ ndt_scores # None /\ ndt_ldos.val = ndt_profile.val.ldos_mean
     /\ FracLess(FracZero, ndt_scores.val.epsilon)) =>
        AllCells(ndt_scores.val.scores, Frac(0, 1))

\* A map equal to the mean scored on the z-score branch, with a standard
\* deviation that is 0 at one cell and positive at another
C9_Witness ==
    /\ ndt_scores # None
    /\ ndt_ldos.val = ndt_profile.val.ldos_mean
    /\ ndt_scores.val.epsilon = Frac(1, 1000000)
    /\ \E i \in DOMAIN ndt_ldos.val : \E j, k \in DOMAIN ndt_ldos.val[i] :
         /\ ndt_profile.val.ldos_std[i][j] = Frac(0, 1)
         /\ ndt_profile.val.ldos_std[i][k] = Frac(1, 1)
         /\ ndt_ldos.val[i][k] # Frac(0, 1)

C11_ChainValidatedAtConstruction ==
    /\ chain_exc # None => (chain = None /\ chain_exc = Raise("ValueError") /\ chain_K = None)
    /\ chain # None =>
          /\ chain_exc = None
          /\ chain.val.n >= 1
          /\ \A x \in Elems(chain.val.m) : x > 0
          /\ \A x \in Elems(chain.val.k) : x >= 0
          /\ chain.val.gamma >= 0

\* A construction that was refused
C11_Witness == chain_exc = Raise("ValueError") /\ chain = None

\* The shape of a map is (ny, nx)
HasShape(a, ny, nx) ==
    /\ DOMAIN a = 0..(ny - 1)
    /\ \A i \in DOMAIN a : DOMAIN a[i] = 0..(nx - 1)

\* C12: OscillatorGrid2D refuses at construction a dimension nx < 1 or
\* ny < 1, a mass <= 0, a stiffness < 0 and a mass_map, kx_map or ky_map
\* whose shape is not (ny, nx): a grid object that exists has none of
\* these.
C12_GridValidatedAtConstruction ==
    grid # None =>
        /\ grid.nx >= 1 /\ grid.ny >= 1
        /\ grid.m > 0 /\ grid.kx >= 0 /\ grid.ky >= 0
        /\ \A mp \in {grid.mass_map, grid.kx_map, grid.ky_map} :
              mp # None => HasShape(mp.val, grid.ny, grid.nx)

(***************************************************************************)
(* Claims about the number of modes of a grid.                             *)
(***************************************************************************)
\* The matrix has N rows of cnt columns each
IsModeMatrix(modes, N, cnt) ==
    /\ DOMAIN modes = 0..(N - 1)
    /\ \A p \in DOMAIN modes : DOMAIN modes[p] = 0..(cnt - 1)

\* eigenmodes(n_modes) of the grid returned cnt frequencies, ascending, and
\* an N x cnt matrix
ReturnedModes(cnt) ==
    /\ IsOk(modes_out)
    /\ DOMAIN modes_out.val.omega = 0..(cnt - 1)
    /\ IsAscending(modes_out.val.omega)
    /\ IsModeMatrix(modes_out.val.modes, grid.nx * grid.ny, cnt)

Min(a, b) == IF a < b THEN a ELSE b

\* C13 as stated: eigenmodes(n_modes) of a grid of N nodes returns
\* min(n_modes, N) modes for every n_modes given, and N modes for None.
C13_ModeCountIsMinForEveryNModes ==
    (grid # None /\ modes_out # None) =>
        LET n_modes == eig_args.val.n_modes
            N == grid.nx * grid.ny
        IN  IF n_modes = None THEN ReturnedModes(N)
            ELSE ReturnedModes(Min(n_modes.val, N))

\* C13: eigenmodes(n_modes) of a grid of N nodes returns exactly n_modes
\* frequencies, ascending, and an N x n_modes matrix, asked of the solver
\* as the index range (0, n_modes - 1), when 1 <= n_modes < N; it returns
\* all N, asked without an index range, when n_modes is None or >= N; when
\* n_modes < 1 the index range (0, n_modes - 1) is refused by the solver
\* and the call raises ValueError.
C13_ModeCountIsMinForPositiveNModes ==
    (grid # None /\ modes_out # None) =>
        LET n_modes == eig_args.val.n_modes
            subset == eig_args.val.subset_by_index
            N == grid.nx * grid.ny
        IN  /\ (n_modes # None /\ 1 <= n_modes.val /\ n_modes.val < N) =>
                  /\ ReturnedModes(n_modes.val)
                  /\ subset = Some(<<0, n_modes.val - 1>>)
            /\ (n_modes = None \/ n_modes.val >= N) =>
                  /\ ReturnedModes(N)
                  /\ subset = None
            /\ (n_modes # None /\ n_modes.val < 1) =>
                  /\ modes_out = Raise("ValueError")
                  /\ eigh_out = None

\* Fewer modes than nodes were asked for and returned
C13_Witness ==
    /\ grid # None /\ IsOk(modes_out)
    /\ eig_args.val.n_modes # None
    /\ eig_args.val.n_modes.val >= 1
    /\ eig_args.val.n_modes.val < grid.nx * grid.ny
    /\ DOMAIN modes_out.val.omega = 0..(eig_args.val.n_modes.val - 1)

(***************************************************************************)
(* Claims about the links of a grid.                                       *)
(***************************************************************************)
\* The index of node (i, j) in K
NodeIndex(g, i, j) == i * g.nx + j

\* Nodes a and b are horizontal or vertical neighbours
AreNeighbours(g, a, b) ==
    LET di == (a \div g.nx) - (b \div g.nx)
        dj == (a % g.nx) - (b % g.nx)
    IN  Abs(di) + Abs(dj) = 1

\* The grid g with kx_map[i, j] set to w
WithKx(g, i, j, w) == [g EXCEPT !.kx_map = Some([@.val EXCEPT ![i][j] = w])]

\* The grid g with ky_map[i, j] set to w
WithKy(g, i, j, w) == [g EXCEPT !.ky_map = Some([@.val EXCEPT ![i][j] = w])]

StrictlyAbove(d, th) == th.sqrt_of.num * d.sqrt_of.den < d.sqrt_of.num * th.sqrt_of.den

IsAnomalyCall == mon_out # None /\ mon_out.val.op \in {"is_anomalous", "signature.is_anomalous"}

\* C15: MaterialSignature.is_anomalous(other, threshold) and
\* HealthMonitor.is_anomalous(current) (with the monitor's threshold)
\* return True exactly when distance_l2 is strictly greater than the
\* threshold, and raise what distance_l2 raises: a distance equal to the
\* threshold is not anomalous, and the reference itself is not anomalous
\* for any threshold >= 0.
C15_AnomalousIffDistanceAboveThreshold ==
    IsAnomalyCall =>
        LET call == mon_out.val
            d == distance_l2(mon.signature.reference, call.other)
        IN  /\ call.op = "is_anomalous" => call.threshold = mon.threshold
            /\ IsRaise(d) => call.result = d
            /\ IsOk(d) =>
                  /\ call.result \in {Ok(TRUE), Ok(FALSE)}
                  /\ call.result.val <=> StrictlyAbove(d.val, call.threshold)
                  /\ d.val = call.threshold => call.result = Ok(FALSE)
            /\ (IsOk(call.result) /\ call.other = mon.signature.reference) =>
                  call.result = Ok(FALSE)

\* A monitor was asked about a spectrum whose distance equals its
\* threshold, which is not 0
C15_Witness ==
    /\ mon_out # None /\ mon_out.val.op = "is_anomalous"
    /\ mon.threshold # SqrtFrac(FracZero)
    /\ HealthMonitor_score(mon, mon_out.val.other) = Ok(mon.threshold)
    /\ mon_out.val.result = Ok(FALSE)

\* The sum of a[i] * b[i]
DotProduct(a, b) == SumFrom([i \in DOMAIN a |-> FracMul(a[i], b[i])], 0)

\* b = c * a for a factor c > 0
IsProportional(a, b) ==
    \E c \in {Frac(1, 2), FracOne, Frac(2, 1)} : b = [i \in DOMAIN a |-> FracMul(c, a[i])]

\* No bin has power in both vectors
DisjointSupport(a, b) == \A i \in DOMAIN a : a[i] = FracZero \/ b[i] = FracZero

MeanPower(spectra, b) ==
    FracDiv(SumFrom([i \in 0..(Len(spectra) - 1) |-> spectra[i + 1].power[b]], 0),
            Frac(Len(spectra), 1))

\* Every spectrum of the list has exactly the grid of the first
SameGridAsFirst(spectra) == \A i \in DOMAIN spectra : spectra[i].omega = spectra[1].omega

\* C17: average_spectrum(spectra) raises ValueError for an empty list and
\* unless every input has exactly the frequency grid of the first input
\* (the same length and the same omega values); when it succeeds, the
\* result has the first input's omega and at every bin the arithmetic
\* mean of the inputs' powers.
C17_AverageRequiresExactGrid ==
    avg_out # None =>
        /\ (avg_in = << >> \/ ~SameGridAsFirst(avg_in)) =>
              (IsRaise(avg_out) /\ avg_out \in
                  {GridDiffersError, Raise("ValueError: Cannot average empty list of spectra")})
        /\ IsOk(avg_out) =>
              /\ avg_out.val.omega = avg_in[1].omega
              /\ DOMAIN avg_out.val.power = DOMAIN avg_in[1].power
              /\ \A b \in DOMAIN avg_out.val.power :
                    avg_out.val.power[b] = MeanPower(avg_in, b)

\* The training list of the channel name
TrainingOf(name) ==
    LET i == CHOOSE k \in DOMAIN bhp_in : bhp_in[k].name = name
    IN  bhp_in[i].spectra

\* The channels whose training list is not empty
TrainedChannels == { bhp_in[i].name : i \in { k \in DOMAIN bhp_in : bhp_in[k].spectra # << >> } }

\* C18: build_health_profile(training_data) returns a profile with exactly
\* one signature for every channel whose training list is not empty (a
\* channel with an empty list is left out, without error), its reference
\* being average_spectrum of the channel's spectra; the call fails when
\* the spectra of one channel do not all have the same frequency grid, and
\* does not fail because the grids of two channels differ; a profile built
\* of copies of one spectrum scores that spectrum at distance 0.
C18_ProfileOfChannelAverages ==
    bhp_out # None =>
        /\ (\E name \in TrainedChannels : ~SameGridAsFirst(TrainingOf(name))) =>
              IsRaise(bhp_out)
        /\ (\A name \in TrainedChannels : SameGridAsFirst(TrainingOf(name))) =>
              IsOk(bhp_out)
        /\ IsOk(bhp_out) =>
              LET signatures == bhp_out.val.signatures
              IN  /\ { signatures[i].name : i \in DOMAIN signatures } = TrainedChannels
                  /\ Len(signatures) = Cardinality(TrainedChannels)
                  /\ \A i \in DOMAIN signatures :
                        Ok(signatures[i].reference)
                            = average_spectrum(TrainingOf(signatures[i].name))
        /\ (bhp_score # None /\ IsOk(bhp_score.val.result)) =>
              \A name \in DOMAIN bhp_score.val.result.val :
                 (\A i \in DOMAIN TrainingOf(name) :
                     TrainingOf(name)[i] = bhp_score.val.current[name])
                   => bhp_score.val.result.val[name] = SqrtFrac(FracZero)

(***************************************************************************)
(* Claims about the normalization of a spectrum.                           *)
(***************************************************************************)
\* C19: normalizing a spectrum (to the default total power 1) returns a
\* new spectrum whose power is the original power divided by
\* total_power() and leaves the spectrum it was called on unchanged; when
\* total_power() is exactly zero the call raises an error and changes
\* nothing.
C19_NormalizeReturnsNewSpectrum ==
    (sp_out # None /\ sp_out.val.target = DefaultTarget) =>
        LET before == sp_out.val.before
            total == Spectrum1D_total_power(before)
            result == sp_out.val.result
        IN  /\ sp_obj = before
            /\ IF total = FracZero THEN IsRaise(result)
               ELSE /\ IsOk(result)
                    /\ result.val # None
                    /\ Spectrum1D_power(result.val)
                          = [i \in DOMAIN before.amps |-> FracDiv(before.amps[i].sq, total)]

(***************************************************************************)
(* Claims about SpectralAnalyzer.analyze.                                  *)
(***************************************************************************)
\* a <= b for fractions
FracLeq(a, b) == a.num * b.den <= b.num * a.den

\* Bin k of the spectrum lies within the bounds of the configuration
InBand(spectrum, k) ==
    LET f == spectrum.omega[k].two_pi_times
    IN  /\ an_config.freq_min # None => FracLeq(an_config.freq_min.val, f)
        /\ an_config.freq_max # None => FracLeq(f, an_config.freq_max.val)

\* The k-th smallest element of a set of indices, k = 0, 1, ...
KthOf(S, k) == CHOOSE i \in S : Cardinality({ j \in S : j < i }) = k

\* C20: analyze(signal) returns the spectrum of timeseries_to_spectrum
\* unchanged when freq_min and freq_max are both None; otherwise it
\* returns exactly the bins with freq_min <= omega / (2 pi) <= freq_max
\* (both ends included, a bound that is None not restricting), in their
\* original order, omega and power having the same length.
C20_AnalyzeKeepsBinsInBand ==
    (an_out # None /\ IsOk(an_out.val.spectrum)) =>
        LET spectrum == an_out.val.spectrum.val
            result == an_out.val.result
            kept == { k \in DOMAIN spectrum.omega : InBand(spectrum, k) }
        IN  IF an_config.freq_min = None /\ an_config.freq_max = None
            THEN result = Ok(spectrum)
            ELSE /\ IsOk(result)
                 /\ DOMAIN result.val.omega = 0..(Cardinality(kept) - 1)
                 /\ DOMAIN result.val.power = DOMAIN result.val.omega
                 /\ \A k \in DOMAIN result.val.omega :
                       /\ result.val.omega[k] = spectrum.omega[KthOf(kept, k)]
                       /\ result.val.power[k] = spectrum.power[KthOf(kept, k)]

\* A spectrum of three bins was cut to its middle bin, which lies on both
\* bounds
C20_Witness ==
    /\ an_out # None /\ IsOk(an_out.val.spectrum) /\ IsOk(an_out.val.result)
    /\ an_config.freq_min # None /\ an_config.freq_max = an_config.freq_min
    /\ DOMAIN an_out.val.spectrum.val.omega = 0..2
    /\ DOMAIN an_out.val.result.val.omega = {0}
    /\ an_out.val.result.val.omega[0] = an_out.val.spectrum.val.omega[1]
    /\ an_out.val.result.val.omega[0].two_pi_times = an_config.freq_min.val

(***************************************************************************)
(* C21: spectral_pressure_difference(spectrum, alpha_left, alpha_right)    *)
(* returns the sum over the bins of power[i] * (alpha_right[i] -           *)
(* alpha_left[i]) (here in tenths), and raises ValueError when            *)
(* alpha_left or alpha_right does not have the spectrum's shape.           *)
(***************************************************************************)
RECURSIVE PdSum(_, _, _, _)
PdSum(power, al, ar, i) ==
    IF i \notin DOMAIN power THEN 0
    ELSE power[i] * (ar[i] - al[i]) + PdSum(power, al, ar, i + 1)

C21_PressureDifferenceIsWeightedSum ==
    (pd_out # None /\ DOMAIN pd_out.val.kwargs = {}) =>
        LET power == pd_in.val.spectrum.power
            al == pd_in.val.alpha_left
            ar == pd_in.val.alpha_right
            result == pd_out.val.result
        IN  IF ArrLen(al) = ArrLen(power) /\ ArrLen(ar) = ArrLen(power)
            THEN result = Ok(PdSum(power, al, ar, 0))
            ELSE IsRaise(result) /\ result.exc = "ValueError"

(***************************************************************************)
(* C22: loading from the path a spectrum or a health profile was last      *)
(* saved to gives the saved object back: a spectrum with identical omega   *)
(* and power arrays, a profile with the same channel names in the same     *)
(* order and identical omega and power arrays for each, whatever the       *)
(* channel names.                                                          *)
(***************************************************************************)
IsLoadOfSaved ==
    /\ io_saved # None /\ io_out # None
    /\ io_out.val.kind = io_saved.val.kind
    /\ io_out.val.path = io_saved.val.path

C22_SaveThenLoadIsRoundTrip ==
    IsLoadOfSaved => io_out.val.result = Ok(io_saved.val.obj)

\* the same for a path that ends with ".npz"
RoundTripAtNpzPath ==
    (IsLoadOfSaved /\ EndsWith(io_saved.val.path, <<".npz">>)) =>
        io_out.val.result = Ok(io_saved.val.obj)

ScoresFollowOneFormula ==
    LET profile == ndt_profile.val
        epsilon == ndt_scores.val.epsilon
        scores == ndt_scores.val.scores
        zscored == FracLess(epsilon, MapMax(profile.ldos_std))
    IN  \A i \in DOMAIN scores : \A j \in DOMAIN scores[i] :
            LET difference == FracAbs(FracSub(ndt_ldos.val[i][j], profile.ldos_mean[i][j]))
            IN  /\ IsFinite(scores[i][j])
                /\ FracLeq(FracZero, scores[i][j])
                /\ zscored =>
                      /\ FracAdd(profile.ldos_std[i][j], epsilon) # FracZero
                      /\ scores[i][j] = FracDiv(difference,
                                                FracAdd(profile.ldos_std[i][j], epsilon))
                /\ ~zscored => scores[i][j] = difference

\* C24 as it is stated: for whatever epsilon the caller passes
C24_OneFormulaForAnyEpsilon == ndt_scores # None => ScoresFollowOneFormula

\* C24 for epsilon > 0
C24_OneFormulaForPositiveEpsilon ==
    (ndt_scores # None /\ FracLess(FracZero, ndt_scores.val.epsilon)) => ScoresFollowOneFormula

\* The z-score taken at a cell whose own std is 0 and whose value is off
\* the mean, another cell having std 1
C24_Witness ==
    /\ ndt_scores # None
    /\ ndt_scores.val.epsilon = Frac(1, 1000000)
    /\ \E i \in DOMAIN ndt_ldos.val : \E j, k \in DOMAIN ndt_ldos.val[i] :
         /\ ndt_profile.val.ldos_std[i][j] = Frac(0, 1)
         /\ ndt_profile.val.ldos_std[i][k] = Frac(1, 1)
         /\ ndt_ldos.val[i][j] # ndt_profile.val.ldos_mean[i][j]
         /\ ndt_scores.val.scores[i][j] # Frac(0, 1)

(***************************************************************************)
(* C25: in build_ndt_profile with noise_level > 0 the LDOS map of each     *)
(* sample is computed on a temporary grid in which the mass of every node  *)
(* is >= 1e-3 and is the base mass plus the noise wherever that is         *)
(* >= 1e-3, the base being the grid's mass_map when it has one and its     *)
(* scalar m otherwise; nx, ny, kx, ky, kx_map and ky_map of the temporary  *)
(* grid are those of the input grid, and the input grid and its mass_map   *)
(* are as they were built after any number of samples.                     *)
(***************************************************************************)
C25_SamplesOnFlooredCopies ==
    nb_made # None =>
        /\ nb_grid = nb_made
        /\ nb_out # None =>
              \A s \in DOMAIN nb_out.val.temp_grids :
                  LET t == nb_out.val.temp_grids[s]
                      noise == nb_out.val.noises[s]
                  IN  /\ t.nx = nb_made.nx /\ t.ny = nb_made.ny
                      /\ t.kx = nb_made.kx /\ t.ky = nb_made.ky
                      /\ t.kx_map = nb_made.kx_map /\ t.ky_map = nb_made.ky_map
                      /\ t.mass_map # None
                      /\ \A i \in 0..(t.ny - 1) : \A j \in 0..(t.nx - 1) :
                            LET base == IF nb_made.mass_map # None
                                        THEN nb_made.mass_map.val[i][j] ELSE nb_made.m
                                perturbed == Frac(base + noise[i][j], 1)
                            IN  /\ FracLeq(Frac(1, 1000), t.mass_map.val[i][j])
                                /\ FracLeq(Frac(1, 1000), perturbed) =>
                                       t.mass_map.val[i][j] = perturbed

\* Two samples of a grid with mass_map and kx_map, the noise taking one
\* node of the first sample below the floor
C25_Witness ==
    /\ nb_out # None /\ nb_made.mass_map # None /\ nb_made.kx_map # None
    /\ Len(nb_out.val.temp_grids) = 2
    /\ IsOk(nb_out.val.profile)
    /\ \E i \in 0..(nb_made.ny - 1) : \E j \in 0..(nb_made.nx - 1) :
          /\ nb_out.val.noises[1][i][j] = -2
          /\ nb_out.val.temp_grids[1].mass_map.val[i][j] = Frac(1, 1000)

(***************************************************************************)
(* C26: timeseries_to_spectrum on a 1-D signal of n >= 1 samples (dt > 0,  *)
(* window "hann" or None) returns n // 2 + 1 bins with omega >= 0 in       *)
(* ascending order; the power of a bin is |FFT|^2 / n, doubled for every   *)
(* bin except bin 0 and, only when n is even, the last bin.  For an odd n  *)
(* the last bin is doubled, and for n = 1 and n = 2 no bin is doubled.     *)
(***************************************************************************)
C26_OneSidedDoubling ==
    (an_out # None /\ an_out.val.n >= 1 /\ IsOk(an_out.val.spectrum)) =>
        LET n == an_out.val.n
            raw == an_out.val.fft_power
            omega == an_out.val.spectrum.val.omega
            power == an_out.val.spectrum.val.power
            last == n \div 2
            factor(k) == IF k = 0 \/ (n % 2 = 0 /\ k = last) THEN 1 ELSE 2
        IN  /\ DOMAIN omega = 0..last /\ DOMAIN power = 0..last
            /\ \A k \in 0..last : FracLeq(FracZero, OmegaToHz(omega[k]))
            /\ \A k \in 1..last : FracLess(OmegaToHz(omega[k - 1]), OmegaToHz(omega[k]))
            /\ \A k \in 0..last : power[k] = Frac(factor(k) * raw[k], n)
            /\ (n % 2 = 1 /\ n > 1) => power[last] = Frac(2 * raw[last], n)
            /\ n \in {1, 2} => \A k \in 0..last : power[k] = Frac(raw[k], n)

\* Three samples: the last bin, which is not a Nyquist bin, is doubled
C26_Witness ==
    /\ an_out # None /\ an_out.val.n = 3 /\ IsOk(an_out.val.spectrum)
    /\ an_out.val.fft_power[1] = 1
    /\ an_out.val.spectrum.val.power[1] = Frac(2, 3)

(***************************************************************************)
(* C27: OscillatorGrid2D uses the one linearization (i, j) <-> i * nx + j  *)
(* in the rows and columns of stiffness_matrix(), on the diagonal of the   *)
(* mass matrix (entry i * nx + j is mass_map[i, j], or m without a map)    *)
(* and in ldos_map(), whose result has the shape (ny, nx) and at [i, j]    *)
(* the LDOS of the flat index i * nx + j, also when nx differs from ny.    *)
(***************************************************************************)
C27_OneLinearization ==
    (lm_out # None /\ IsOk(lm_out.val.result)) =>
        LET g == lm_grid
            K == lm_out.val.K
            M == lm_out.val.M
            ldos == lm_out.val.result.val
            N == g.nx * g.ny
        IN  /\ \A i \in 0..(g.ny - 1), j \in 0..(g.nx - 2) :
                  K[i * g.nx + j][i * g.nx + j + 1] = -HorizLink(g, i, j)
            /\ \A i \in 0..(g.ny - 2), j \in 0..(g.nx - 1) :
                  K[i * g.nx + j][(i + 1) * g.nx + j] = -VertLink(g, i, j)
            /\ DOMAIN M = 0..(N - 1)
            /\ \A i \in 0..(g.ny - 1), j \in 0..(g.nx - 1) :
                  M[i * g.nx + j][i * g.nx + j] =
                      IF g.mass_map # None THEN g.mass_map.val[i][j] ELSE g.m
            /\ \A a, b \in 0..(N - 1) : a # b => M[a][b] = 0
            /\ DOMAIN ldos = 0..(g.ny - 1)
            /\ \A i \in 0..(g.ny - 1) :
                  /\ DOMAIN ldos[i] = 0..(g.nx - 1)
                  /\ \A j \in 0..(g.nx - 1) :
                        ldos[i][j] = Frac(lm_out.val.ldos_flat[i * g.nx + j], 1)

\* A grid of 3 x 2 nodes with a mass_map and link maps whose only mode in
\* the window sits at flat index 3, the node (1, 0)
C27_Witness ==
    /\ lm_out # None /\ IsOk(lm_out.val.result)
    /\ lm_grid.nx = 3 /\ lm_grid.ny = 2
    /\ lm_grid.mass_map # None /\ lm_grid.kx_map # None
    /\ \A t \in 0..5 : (lm_out.val.ldos_flat[t] # 0) <=> (t = 3)
    /\ lm_out.val.result.val[1][0] # Frac(0, 1)

(***************************************************************************)
(* C28: a validation or shape error (unknown window, empty file, bad       *)
(* column, missing file) reaches the caller of the operation that detects  *)
(* it: a train or score command in which loading or analyzing a file       *)
(* raised ends by raising, and never goes on with the remaining files or   *)
(* channels.                                                               *)
(***************************************************************************)
C28_ErrorsReachTheCaller ==
    /\ (cli_train # None /\ cli_train.val.failed # << >>) => IsRaise(cli_train.val.ret)
    /\ (cli_score # None /\ cli_score.val.failed # << >>) => IsRaise(cli_score.val.ret)

(***************************************************************************)
(* C29: a call of symmetric_newton runs at most max_iter loop bodies and   *)
(* ends by returning or by raising ValueError for |x| > 1e10; the returned *)
(* n_iter is within 0..max_iter, is 0 when |f(x0)| < tol, and is max_iter  *)
(* when no stopping criterion was met; h is never increased and stays > 0. *)
(***************************************************************************)
\* The loop bodies started are at most max_iter
NwBodiesBounded == nw_in # None => nw_i <= nw_in.val.max_iter

\* The returned count: within 0..max_iter, and max_iter exactly when the
\* loop ran out, else the index of the body that met a stopping criterion
NwCountInRange ==
    (nw_out # None /\ ~IsRaise(nw_out)) =>
        /\ 0 <= nw_out.val.n_iter /\ nw_out.val.n_iter <= nw_in.val.max_iter
        /\ IF nw_out.val.why = "max_iter"
           THEN nw_out.val.n_iter = nw_in.val.max_iter /\ nw_i = nw_in.val.max_iter
           ELSE nw_out.val.n_iter = nw_i - 1 /\ nw_out.val.n_iter < nw_in.val.max_iter

\* The initial guess is a root: the call returns (x0, 0)
NwRootAtStart ==
    (/\ nw_in # None /\ nw_out # None
     /\ ~IsRaise(PolyAt(nw_in.val.f, nw_in.val.x0))
     /\ AbsBelowPow10(PolyAt(nw_in.val.f, nw_in.val.x0).val, nw_in.val.tol))
    => nw_out = Ok([x_root |-> nw_in.val.x0, n_iter |-> 0,
                    why |-> IF nw_in.val.max_iter = 0 THEN "max_iter" ELSE "tol"])

\* h is never increased and stays > 0
NwStepShrinks ==
    /\ \A k \in DOMAIN nw_hs : nw_hs[k].num > 0
    /\ \A k \in 1..(Len(nw_hs) - 1) : HLeq(nw_hs[k + 1], nw_hs[k])
    /\ nw_in # None => nw_hs[Len(nw_hs)] = nw_h

\* The only exception is the ValueError of the divergence test
NwRaisesOnlyOnDivergence ==
    (nw_out # None /\ IsRaise(nw_out)) =>
        nw_out.exc = "ValueError: Method diverged" /\ AbsAbovePow10(nw_x, 10)

\* An exception is the ValueError of the divergence test, the ValueError
\* of a failed derivative, or what f(x) raised at the head of a body
NwRaises ==
    (nw_out # None /\ IsRaise(nw_out)) =>
        \/ nw_out.exc = "ValueError: Method diverged" /\ AbsAbovePow10(nw_x, 10)
        \/ /\ nw_out.exc = "ValueError: Failed to compute derivative"
           /\ IsRaise(SymmetricDifference(nw_in.val.f, nw_x, nw_h))
        \/ nw_out = PolyAt(nw_in.val.f, nw_x)

C29_NewtonTerminatesAsStated ==
    /\ NwBodiesBounded /\ NwCountInRange /\ NwRootAtStart
    /\ NwStepShrinks /\ NwRaisesOnlyOnDivergence

\* C29 amended: the same for h0 > 0 and max_iter >= 0, with the other two
\* ways the call raises
C29_NewtonTerminates ==
    (nw_in # None /\ nw_in.val.h0.num > 0 /\ nw_in.val.max_iter >= 0) =>
        /\ NwBodiesBounded /\ NwCountInRange /\ NwRootAtStart
        /\ NwStepShrinks /\ NwRaises

\* A call with h0 > 0 ran three loop bodies or more, halved h twice or
\* more, met no stopping criterion and returned max_iter
C29_Witness ==
    /\ nw_in # None /\ nw_in.val.h0.num > 0 /\ nw_out # None /\ ~IsRaise(nw_out)
    /\ nw_out.val.why = "max_iter" /\ nw_out.val.n_iter >= 3
    /\ Len(nw_hs) >= 3

(***************************************************************************)
(* C30: every entry of ldos_from_modes(modes, omegas, (w_min, w_max)) is   *)
(* >= 0; a window with a lower w_min or a higher w_max gives entries that  *)
(* are no smaller; a window with w_min > w_max gives the zero vector; and  *)
(* the vector reshaped to a map of ny x nx = N_points cells, as ldos_map   *)
(* does, has every cell >= 0.                                              *)
(***************************************************************************)
\* The (ny, nx) with ny * nx = n
ShapesOf(n) == { s \in (1..n) \X (1..n) : s[1] * s[2] = n }

C30_LdosNonNegativeAndMonotone ==
    IsOk(ldos_out) =>
        LET a == ldos_in.val
            r == ldos_out.val
        IN  /\ \A p \in DOMAIN r : r[p] >= 0
            /\ \A lo \in LdosWindowEnds, hi \in LdosWindowEnds :
                  (lo <= a.freq_window[1] /\ hi >= a.freq_window[2]) =>
                      \A p \in DOMAIN r :
                          ldos_from_modes(a.modes, a.omegas, <<lo, hi>>)[p] >= r[p]
            /\ a.freq_window[1] > a.freq_window[2] => \A p \in DOMAIN r : r[p] = 0
            /\ \A s \in ShapesOf(ArrLen(r)) :
                  \A i \in 0..(s[1] - 1), j \in 0..(s[2] - 1) :
                      ~FracLess(Reshape(r, s[1], s[2])[i][j], FracZero)

\* A window holding one mode with non-zero (negative) amplitude at the
\* first point was called, and a strictly wider window holds one more and
\* gives a strictly larger entry; the model also calls an inverted window
C30_Witness ==
    /\ IsOk(ldos_out)
    /\ LET a == ldos_in.val
       IN  /\ a.freq_window = <<1, 1>>
           /\ ArrLen(a.modes) = 2
           /\ \E i, j \in DOMAIN a.omegas :
                 /\ a.omegas[i] = 1 /\ a.omegas[j] = 2
                 /\ a.modes[0][i] = -1 /\ a.modes[0][j] # 0
           /\ ldos_out.val[0] = 1
           /\ ldos_from_modes(a.modes, a.omegas, <<0, 2>>)[0] > ldos_out.val[0]

====
